---- MODULE Spec2Model ----
(***************************************************************************)
(* State-machine model of the Signal-protocol persistence adapter          *)
(* (src/src/storage_adapter.rs): the JsStorageAdapter handles, the caches  *)
(* they share, the asynchronous host store behind them, the legacy         *)
(* migration of host values, and SessionBuilder (session_builder.rs).      *)
(***************************************************************************)
EXTENDS Integers, Sequences, FiniteSets, TLC

(***************************************************************************)
(* Bounds of the model.                                                    *)
(***************************************************************************)
\* Number of operations the tasks may start in one behaviour.
MaxOps == 3

\* Number of concurrently running async tasks (each owns one adapter handle).
NumTasks == 2

(***************************************************************************)
(* Option and Result values.  An Option is a sequence of length 0 or 1.    *)
(***************************************************************************)
None == <<>>

Some(x) == <<x>>

IsSome(o) == Len(o) = 1

Unwrap(o) == o[1]

Ok(v) == [ok |-> TRUE, v |-> v]

\* SignalProtocolError values carry their variant name only.
Err(e) == [ok |-> FALSE, e |-> e]

(***************************************************************************)
(* JavaScript values as the adapter sees them through js_sys.              *)
(***************************************************************************)
JsNull == [t |-> "null"]

JsUndefined == [t |-> "undefined"]

JsNum(n) == [t |-> "num", n |-> n]

JsStr(s) == [t |-> "str", s |-> s]

JsBool(b) == [t |-> "bool", b |-> b]

\* A Uint8Array holding the byte string b.
JsU8(b) == [t |-> "u8", b |-> b]

\* A plain object: its own properties in insertion order.
JsObj(props) == [t |-> "obj", p |-> props]

\* A JavaScript array.
JsArr(elems) == [t |-> "arr", a |-> elems]

Prop(k, v) == [k |-> k, v |-> v]

\* Values that Reflect.get / Reflect.has accept as a target.
IsJsObject(v) == v.t \in {"obj", "u8", "arr"}

OwnProps(v) == IF v.t = "obj" THEN v.p ELSE <<>>

HasOwn(v, key) == \E i \in 1..Len(OwnProps(v)) : OwnProps(v)[i].k = key

\* js_sys::Reflect::has(..).unwrap_or(false): a non-object target throws.
ReflectHas(v, key) == IsJsObject(v) /\ HasOwn(v, key)

\* js_sys::Reflect::get: Err on a non-object target, undefined when absent.
ReflectGet(v, key) ==
    IF ~IsJsObject(v) THEN Err("TypeError")
    ELSE IF HasOwn(v, key)
         THEN Ok(OwnProps(v)[CHOOSE i \in 1..Len(OwnProps(v)) : OwnProps(v)[i].k = key].v)
         ELSE Ok(JsUndefined)

\* Property names that JavaScript treats as array indices, in ascending order.
IndexKeys == <<"0", "1", "2", "3">>

IsIndexKey(k) == \E i \in 1..Len(IndexKeys) : IndexKeys[i] = k

RECURSIVE FilterKeys(_, _, _)
\* The keys of props[i..] that are (want = TRUE) or are not index keys.
FilterKeys(props, i, want) ==
    IF i > Len(props) THEN <<>>
    ELSE IF IsIndexKey(props[i].k) = want
         THEN <<props[i].k>> \o FilterKeys(props, i + 1, want)
         ELSE FilterKeys(props, i + 1, want)

RECURSIVE SortedIndexKeys(_, _)
SortedIndexKeys(v, i) ==
    IF i > Len(IndexKeys) THEN <<>>
    ELSE IF HasOwn(v, IndexKeys[i])
         THEN <<IndexKeys[i]>> \o SortedIndexKeys(v, i + 1)
         ELSE SortedIndexKeys(v, i + 1)

\* js_sys::Object::keys: index keys ascending, then the others in insertion order.
ObjectKeys(v) == SortedIndexKeys(v, 1) \o FilterKeys(OwnProps(v), 1, FALSE)

\* JsValue::as_string, as_f64, as_bool.
AsString(v) == IF v.t = "str" THEN Some(v.s) ELSE None

AsF64(v) == IF v.t = "num" THEN Some(v.n) ELSE None

AsBool(v) == IF v.t = "bool" THEN Some(v.b) ELSE None

\* `x as u32` of an f64: saturating.  The numbers of the model lie below
\* 2^31, so only the lower end can saturate.
AsU32(n) == IF n < 0 THEN 0 ELSE n

\* Result::ok and Result::unwrap_or, Option::unwrap_or.
OkOption(r) == IF r.ok THEN Some(r.v) ELSE None

ResultOr(r, d) == IF r.ok THEN r.v ELSE d

UnwrapOr(o, d) == IF IsSome(o) THEN Unwrap(o) ELSE d

AndThenString(r) == IF r.ok THEN AsString(r.v) ELSE None

AndThenNumber(r) == IF r.ok THEN AsF64(r.v) ELSE None

\* get_string / get_object / get_number helpers of the adapter.
get_string(obj, key) == AndThenString(ReflectGet(obj, key))

get_object(obj, key) == OkOption(ReflectGet(obj, key))

get_number(obj, key) == AndThenNumber(ReflectGet(obj, key))

(***************************************************************************)
(* Byte strings.  Plain bytes are sequences of 0..255; a byte string that  *)
(* crosses the host boundary is raw bytes, a protobuf encoding, or UTF-8   *)
(* text.                                                                   *)
(***************************************************************************)
Raw(seq) == [enc |-> "raw", raw |-> seq]

\* UTF-8 text: whether its first non-blank character is '[' and what
\* JSON.parse makes of it (None when it does not parse).
Txt(bracket, json) == [enc |-> "txt", bracket |-> bracket, json |-> json]

\* BASE64_STANDARD.decode on the strings the model uses.
Base64Decode(s) ==
    CASE s = ""     -> Ok(<<>>)
      [] s = "AQ==" -> Ok(<<1>>)
      [] s = "Ag==" -> Ok(<<2>>)
      [] s = "Aw==" -> Ok(<<3>>)
      [] s = "BA==" -> Ok(<<4>>)
      [] s = "BQ==" -> Ok(<<5>>)
      [] s = "Bg==" -> Ok(<<6>>)
      [] s = "Bw==" -> Ok(<<7>>)
      [] s = "CA==" -> Ok(<<8>>)
      [] OTHER      -> Err("base64")

\* BASE64_STANDARD.decode(..).unwrap_or_default()
Base64OrEmpty(s) == ResultOr(Base64Decode(s), <<>>)

\* get_number(obj, key).unwrap_or(0.0) as u32
U32Field(obj, key) == AsU32(UnwrapOr(get_number(obj, key), 0))

\* get_string(obj, key).unwrap_or_default()
StringField(obj, key) == UnwrapOr(get_string(obj, key), "")

\* The base64 string field obj[key] decoded, empty when absent or malformed.
Base64Field(obj, key) == Base64OrEmpty(StringField(obj, key))

(***************************************************************************)
(* Record codec (prost / wacore_libsignal), as the adapter uses it.        *)
(***************************************************************************)
EmptySessionRecord ==
    [ty |-> "RecordStructure", current_session |-> None, previous_sessions |-> <<>>]

EmptySenderKeyRecord ==
    [ty |-> "SenderKeyRecordStructure", sender_key_states |-> <<>>]

\* A field of a message type: optional or repeated, and the message type of
\* its values ("" for a scalar or a byte string).
Field(name, kind, sub) == [name |-> name, kind |-> kind, sub |-> sub]

MessageTypes ==
    {"RecordStructure", "SessionStructure", "Chain", "ChainKey", "MessageKey",
     "SenderKeyRecordStructure", "SenderKeyStateStructure", "SenderChainKey",
     "SenderSigningKey", "SenderMessageKey", "PreKeyRecordStructure",
     "SignedPreKeyRecordStructure"}

\* The fields of the message types the records are made of, in tag order.
FieldsOf(ty) ==
    CASE ty = "RecordStructure" ->
            <<Field("current_session", "optional", "SessionStructure"),
              Field("previous_sessions", "repeated", "SessionStructure")>>
      [] ty = "SessionStructure" ->
            <<Field("session_version", "optional", ""),
              Field("local_identity_public", "optional", ""),
              Field("remote_identity_public", "optional", ""),
              Field("root_key", "optional", ""),
              Field("previous_counter", "optional", ""),
              Field("sender_chain", "optional", "Chain"),
              Field("receiver_chains", "repeated", "Chain"),
              Field("pending_key_exchange", "optional", ""),
              Field("pending_pre_key", "optional", ""),
              Field("remote_registration_id", "optional", ""),
              Field("local_registration_id", "optional", ""),
              Field("needs_refresh", "optional", ""),
              Field("alice_base_key", "optional", "")>>
      [] ty = "Chain" ->
            <<Field("sender_ratchet_key", "optional", ""),
              Field("sender_ratchet_key_private", "optional", ""),
              Field("chain_key", "optional", "ChainKey"),
              Field("message_keys", "repeated", "MessageKey")>>
      [] ty = "ChainKey" ->
            <<Field("index", "optional", ""), Field("key", "optional", "")>>
      [] ty = "MessageKey" ->
            <<Field("index", "optional", ""), Field("cipher_key", "optional", ""),
              Field("mac_key", "optional", ""), Field("iv", "optional", "")>>
      [] ty = "SenderKeyRecordStructure" ->
            <<Field("sender_key_states", "repeated", "SenderKeyStateStructure")>>
      [] ty = "SenderKeyStateStructure" ->
            <<Field("sender_key_id", "optional", ""),
              Field("sender_chain_key", "optional", "SenderChainKey"),
              Field("sender_signing_key", "optional", "SenderSigningKey"),
              Field("sender_message_keys", "repeated", "SenderMessageKey")>>
      [] ty = "SenderChainKey" ->
            <<Field("iteration", "optional", ""), Field("seed", "optional", "")>>
      [] ty = "SenderSigningKey" ->
            <<Field("public", "optional", ""), Field("private", "optional", "")>>
      [] ty = "SenderMessageKey" ->
            <<Field("iteration", "optional", ""), Field("seed", "optional", "")>>
      [] ty = "PreKeyRecordStructure" ->
            <<Field("id", "optional", ""), Field("public_key", "optional", ""),
              Field("private_key", "optional", "")>>
      [] ty = "SignedPreKeyRecordStructure" ->
            <<Field("id", "optional", ""), Field("public_key", "optional", ""),
              Field("private_key", "optional", ""), Field("signature", "optional", ""),
              Field("timestamp", "optional", "")>>

Schema == [ty \in MessageTypes |-> FieldsOf(ty)]

\* The message types a byte string is decoded as, which carry their type in
\* the model's records.
IsRecordType(ty) ==
    ty \in {"RecordStructure", "SenderKeyRecordStructure", "PreKeyRecordStructure",
            "SignedPreKeyRecordStructure"}

\* A field on the wire: its tag (the field's name here) and its value, the
\* fields of the message for a message-typed field.
WireField(name, val) == [name |-> name, val |-> val]

RECURSIVE EncodeFields(_, _, _)
\* prost's encode: the fields of msg that are set, from field i of fields on,
\* an optional field once when it is Some, a repeated one once per element.
EncodeValue(v, sub) == IF sub = "" THEN v ELSE EncodeFields(v, Schema[sub], 1)

EncodeField(v, f) ==
    IF f.kind = "optional"
    THEN IF IsSome(v) THEN <<WireField(f.name, EncodeValue(Unwrap(v), f.sub))>> ELSE <<>>
    ELSE [j \in 1..Len(v) |-> WireField(f.name, EncodeValue(v[j], f.sub))]

EncodeFields(msg, fields, i) ==
    IF i > Len(fields) THEN <<>>
    ELSE EncodeField(msg[fields[i].name], fields[i]) \o EncodeFields(msg, fields, i + 1)

RECURSIVE DecodeFields(_, _)
\* prost's decode (merge): an optional field is the last value on the wire
\* with its tag, a repeated field all of them in order; an unknown tag is
\* skipped.
DecodeValue(val, sub) == IF sub = "" THEN val ELSE DecodeFields(val, sub)

WithTag(wire, name) == SelectSeq(wire, LAMBDA e : e.name = name)

\* A decoder that keeps only the first element of a repeated field.
DecodeFirstOnly(entries, f) ==
    IF f.kind = "optional"
    THEN IF entries = <<>> THEN None
         ELSE Some(DecodeValue(entries[Len(entries)].val, f.sub))
    ELSE [j \in 1..(IF Len(entries) > 1 THEN 1 ELSE Len(entries)) |->
             DecodeValue(entries[j].val, f.sub)]

DecodeField(entries, f) ==
    IF f.kind = "optional"
    THEN IF entries = <<>> THEN None
         ELSE Some(DecodeValue(entries[Len(entries)].val, f.sub))
    ELSE [j \in 1..Len(entries) |-> DecodeValue(entries[j].val, f.sub)]

\* The names of the fields of a message of type ty in the model's records.
FieldNames ==
    [ty \in MessageTypes |->
        {Schema[ty][i].name : i \in 1..Len(Schema[ty])}
            \cup (IF IsRecordType(ty) THEN {"ty"} ELSE {})]

FieldOfName ==
    [ty \in MessageTypes |->
        [name \in FieldNames[ty] \ {"ty"} |->
            Schema[ty][CHOOSE i \in 1..Len(Schema[ty]) : Schema[ty][i].name = name]]]

DecodeFields(wire, ty) ==
    [name \in FieldNames[ty] |->
        IF name = "ty" THEN ty
        ELSE DecodeField(WithTag(wire, name), FieldOfName[ty][name])]

\* The bytes of a message of type ty whose wire form is wire: no field set
\* gives zero bytes.
Encoded(ty, wire) == IF wire = <<>> THEN Raw(<<>>) ELSE [enc |-> "pb", ty |-> ty, wire |-> wire]

\* prost encode_to_vec.
ProtoEncode(msg) == Encoded(msg.ty, EncodeFields(msg, Schema[msg.ty], 1))

\* prost decode of a byte string as message type ty.
ProtoDecode(bytes, ty) ==
    CASE bytes.enc = "raw" /\ bytes.raw = <<>> -> Ok(DecodeFields(<<>>, ty))
      [] bytes.enc = "pb" /\ bytes.ty = ty -> Ok(DecodeFields(bytes.wire, ty))
      [] OTHER -> Err("InvalidProtobufEncoding")

\* CoreSessionRecord::serialize / deserialize.
SessionSerialize(record) == ProtoEncode(record)

SessionDeserialize(bytes) == ProtoDecode(bytes, "RecordStructure")

\* CoreSenderKeyRecord::serialize / deserialize.
SenderKeySerialize(record) == ProtoEncode(record)

SenderKeyDeserialize(bytes) == ProtoDecode(bytes, "SenderKeyRecordStructure")

(***************************************************************************)
(* Key material.                                                           *)
(***************************************************************************)
\* The curve's type marker byte (0x05).
DjbType == 5

\* Lengths of a bare curve key and of a type-prefixed public key.
KeyLen == 32

PrefixedKeyLen == 33

\* A normalization that prefixes every key not already 33 bytes long.
PrefixUnlessFull(bytes) ==
    IF Len(bytes) = PrefixedKeyLen THEN bytes ELSE <<DjbType>> \o bytes

ensure_curve_key_with_prefix(bytes) ==
    IF Len(bytes) = PrefixedKeyLen /\ bytes[1] = DjbType THEN bytes
    ELSE IF Len(bytes) = KeyLen THEN <<DjbType>> \o bytes
    ELSE bytes

\* IdentityKey::try_from / PublicKey::deserialize of the protocol engine:
\* type byte, then 32 key bytes; the serialized form is the 33-byte prefix.
PublicKeyDeserialize(bytes) ==
    IF Len(bytes) = 0 THEN Err("NoKeyTypeIdentifier")
    ELSE IF bytes[1] # DjbType THEN Err("BadKeyType")
    ELSE IF Len(bytes) < PrefixedKeyLen THEN Err("BadKeyLength")
    ELSE Ok(SubSeq(bytes, 1, PrefixedKeyLen))

\* PrivateKey::deserialize of the protocol engine.
PrivateKeyDeserialize(bytes) ==
    IF Len(bytes) # KeyLen THEN Err("BadKeyLength") ELSE Ok(bytes)

\* serde aliases of JsKeyPairBytes.
PublicAliases == <<"publicKey", "pubKey", "public">>

PrivateAliases == <<"privateKey", "privKey", "private">>

RECURSIVE FirstAlias(_, _, _)
\* The value of the first alias the object has, as Option<JsValue>.
FirstAlias(obj, names, i) ==
    IF i > Len(names) THEN None
    ELSE IF HasOwn(obj, names[i]) THEN OkOption(ReflectGet(obj, names[i]))
    ELSE FirstAlias(obj, names, i + 1)

\* An Option<ByteBuf> field: absent, null and undefined give None.
ByteBufOf(f) ==
    IF ~IsSome(f) \/ Unwrap(f).t \in {"null", "undefined"} THEN Ok(None)
    ELSE IF Unwrap(f).t = "u8" /\ Unwrap(f).b.enc = "raw" THEN Ok(Some(Unwrap(f).b.raw))
    ELSE Err("InvalidState")

ByteBufField(obj, names) == ByteBufOf(FirstAlias(obj, names, 1))

\* JsKeyPairBytes::into_vecs on the two fields read.
KeyPairOfFields(pub, priv) ==
    IF ~pub.ok \/ ~priv.ok THEN Err("InvalidState")
    ELSE IF IsSome(pub.v) /\ IsSome(priv.v)
         THEN Ok(Some([public_key |-> Unwrap(pub.v), private_key |-> Unwrap(priv.v)]))
         ELSE Ok(None)

JsKeyPairBytes_into_vecs(obj) ==
    KeyPairOfFields(ByteBufField(obj, PublicAliases), ByteBufField(obj, PrivateAliases))

\* JsKeyEnvelope::into_vecs: the inline fields, else the nested keyPair.
EnvelopeOf(obj, inline) ==
    IF ~inline.ok THEN inline
    ELSE IF IsSome(inline.v) THEN inline
    ELSE IF HasOwn(obj, "keyPair") /\ ReflectGet(obj, "keyPair").v.t = "obj"
         THEN JsKeyPairBytes_into_vecs(ReflectGet(obj, "keyPair").v)
         ELSE Ok(None)

JsKeyEnvelope_into_vecs(obj) == EnvelopeOf(obj, JsKeyPairBytes_into_vecs(obj))

\* IdentityKeyPair::new on the two deserialized keys.
IdentityPairOf(identity_key, private_key) ==
    IF ~identity_key.ok THEN identity_key
    ELSE IF ~private_key.ok THEN private_key
    ELSE Ok([public_key |-> identity_key.v, private_key |-> private_key.v])

\* JsIdentityKeyPairPayload::into_pair on the key bytes read.
IntoPairOf(vecs) ==
    IF ~vecs.ok \/ ~IsSome(vecs.v) THEN Err("InvalidState")
    ELSE IdentityPairOf(
             PublicKeyDeserialize(ensure_curve_key_with_prefix(Unwrap(vecs.v).public_key)),
             PrivateKeyDeserialize(Unwrap(vecs.v).private_key))

\* deserialize_js_value::<JsIdentityKeyPairPayload> followed by into_pair.
JsIdentityKeyPairPayload_into_pair(js_value) ==
    IF js_value.t # "obj" THEN Err("InvalidState")
    ELSE IntoPairOf(JsKeyEnvelope_into_vecs(js_value))

\* promise_to_option_value, then the parsing of get_identity_key_pair.
IdentityFromHost(value) ==
    IF value.t \in {"null", "undefined"} THEN Err("InvalidState")
    ELSE JsIdentityKeyPairPayload_into_pair(value)

\* The parsing of get_local_registration_id.
RegistrationFromHost(value) ==
    IF IsSome(AsF64(value)) THEN Ok(AsU32(Unwrap(AsF64(value)))) ELSE Err("InvalidState")

\* serde aliases of the id and signature fields of the pre-key payloads.
PreKeyIdAliases == <<"id", "preKeyId", "keyId">>

SignedPreKeyIdAliases == <<"id", "keyId">>

SignatureAliases == <<"signature", "sig", "signatureBytes">>

\* An Option<u32> field: absent, null and undefined give None.
IdFieldOf(f) ==
    IF ~IsSome(f) \/ Unwrap(f).t \in {"null", "undefined"} THEN Ok(None)
    ELSE IF Unwrap(f).t = "num" THEN Ok(Some(Unwrap(f).n))
    ELSE Err("InvalidState")

IdField(obj, names) == IdFieldOf(FirstAlias(obj, names, 1))

\* KeyPair::from_public_and_private on the normalized public key.
KeyPairOfVecs(vecs) ==
    IdentityPairOf(PublicKeyDeserialize(ensure_curve_key_with_prefix(vecs.public_key)),
                   PrivateKeyDeserialize(vecs.private_key))

\* PreKeyRecord::new.
PreKeyRecordNew(id, key_pair) ==
    IF ~key_pair.ok THEN key_pair
    ELSE Ok([id |-> id, key_pair |-> key_pair.v])

\* deserialize_js_value::<JsPreKeyRecordPayload> and into_record on the
\* fields read: the id of the payload wins over the id requested.
PreKeyIntoRecord(requested_id, id, vecs) ==
    IF ~id.ok \/ ~vecs.ok THEN Err("InvalidState")
    ELSE IF ~IsSome(vecs.v) THEN Err("InvalidState")
    ELSE PreKeyRecordNew(IF IsSome(id.v) THEN Unwrap(id.v) ELSE requested_id,
                         KeyPairOfVecs(Unwrap(vecs.v)))

JsPreKeyRecordPayload_into_record(requested_id, js_value) ==
    IF js_value.t # "obj" THEN Err("InvalidState")
    ELSE PreKeyIntoRecord(requested_id, IdField(js_value, PreKeyIdAliases),
                          JsKeyEnvelope_into_vecs(js_value))

\* A get_pre_key that takes a missing pre-key for a malformed one.
PreKeyFromHostLenient(requested_id, value) ==
    IF value.t \in {"null", "undefined"} THEN Err("InvalidState")
    ELSE JsPreKeyRecordPayload_into_record(requested_id, value)

\* promise_to_option_value, then the parsing of get_pre_key.
PreKeyFromHost(requested_id, value) ==
    IF value.t \in {"null", "undefined"} THEN Err("InvalidPreKeyId")
    ELSE JsPreKeyRecordPayload_into_record(requested_id, value)

\* SignedPreKeyRecord::new.
SignedPreKeyRecordNew(id, timestamp, key_pair, signature) ==
    IF ~key_pair.ok THEN key_pair
    ELSE Ok([id |-> id, timestamp |-> timestamp, key_pair |-> key_pair.v,
             signature |-> signature])

\* deserialize_js_value::<JsSignedPreKeyRecordPayload> and into_record.
SignedPreKeyIntoRecord(requested_id, id, timestamp, signature, vecs) ==
    IF ~id.ok \/ ~timestamp.ok \/ ~signature.ok \/ ~vecs.ok THEN Err("InvalidState")
    ELSE IF ~IsSome(vecs.v) THEN Err("InvalidState")
    ELSE IF ~IsSome(signature.v) THEN Err("InvalidState")
    ELSE SignedPreKeyRecordNew(IF IsSome(id.v) THEN Unwrap(id.v) ELSE requested_id,
                               UnwrapOr(timestamp.v, 0), KeyPairOfVecs(Unwrap(vecs.v)),
                               Unwrap(signature.v))

JsSignedPreKeyRecordPayload_into_record(requested_id, js_value) ==
    IF js_value.t # "obj" THEN Err("InvalidState")
    ELSE SignedPreKeyIntoRecord(requested_id, IdField(js_value, SignedPreKeyIdAliases),
                                IdField(js_value, <<"timestamp">>),
                                ByteBufField(js_value, SignatureAliases),
                                JsKeyEnvelope_into_vecs(js_value))

\* promise_to_option_value, then the parsing of get_signed_pre_key.
SignedPreKeyFromHost(requested_id, value) ==
    IF value.t \in {"null", "undefined"} THEN Err("InvalidSignedPreKeyId")
    ELSE JsSignedPreKeyRecordPayload_into_record(requested_id, value)

(***************************************************************************)
(* Legacy session migration (migrate_legacy_json), in the three stretches  *)
(* between its suspension points.  Where the code binds a value and then   *)
(* branches on it, the model passes the value to the operator that         *)
(* branches.                                                               *)
(***************************************************************************)
\* dyn_into::<js_sys::Object>() succeeds on objects only.
IsInstanceOfObject(v) == IsJsObject(v)

\* "Verify we actually have a session object now".
DetectChecked(session_data) ==
    IF ReflectHas(session_data, "registrationId")
    THEN [kind |-> "session", data |-> session_data]
    ELSE [kind |-> "none"]

\* The first session of the wrapper, read with Reflect::get.
DetectInner(inner) ==
    IF ~inner.ok THEN [kind |-> "err", e |-> "FfiBindingError"]
    ELSE DetectChecked(inner.v)

\* A wrapper lookup that takes the last key instead of the first.
DetectLast(sessions, keys) ==
    IF Len(keys) = 0 THEN [kind |-> "none"]
    ELSE DetectInner(ReflectGet(sessions, keys[Len(keys)]))

DetectFirst(sessions, keys) ==
    IF Len(keys) = 0 THEN [kind |-> "none"]
    ELSE DetectInner(ReflectGet(sessions, keys[1]))

\* The _sessions wrapper: its first key is the session migrated.
DetectWrapper(sessions) ==
    IF ~IsSome(sessions) THEN [kind |-> "err", e |-> "InvalidState"]
    ELSE IF ~IsInstanceOfObject(Unwrap(sessions))
         THEN [kind |-> "err", e |-> "InvalidState"]
    ELSE DetectFirst(Unwrap(sessions), ObjectKeys(Unwrap(sessions)))

\* A shape detection that reports an unrecognized value as an error.
MigrateDetectStrict(value) ==
    IF ReflectHas(value, "registrationId") /\ ReflectHas(value, "currentRatchet")
    THEN DetectChecked(value)
    ELSE IF ~ReflectHas(value, "_sessions") THEN [kind |-> "err", e |-> "InvalidState"]
    ELSE DetectWrapper(get_object(value, "_sessions"))

\* Shape detection: which value, if any, is migrated as the legacy session.
\* kind "none" is Ok(None), "err" an error, "session" the object to migrate.
MigrateDetect(value) ==
    IF ReflectHas(value, "registrationId") /\ ReflectHas(value, "currentRatchet")
    THEN DetectChecked(value)
    ELSE IF ~ReflectHas(value, "_sessions") THEN [kind |-> "none"]
    ELSE DetectWrapper(get_object(value, "_sessions"))

\* Zero-filled placeholders for the MAC key and the IV of a migrated message key.
MacKeyLen == 32

IvLen == 16

Zeros(n) == [i \in 1..n |-> 0]

\* Prepends the result of one loop iteration to the results of the later
\* ones; the first error ends the loop.
ConsResult(first, rest) ==
    IF ~first.ok THEN first
    ELSE IF ~rest.ok THEN rest
    ELSE Ok(<<first.v>> \o rest.v)

\* One iteration of the loop over msg_keys_list: idx is idx_val.as_f64(),
\* got the value read at that key.
MessageKeyEntry(idx, got) ==
    IF ~IsSome(idx) THEN Err("InvalidState")
    ELSE IF ~got.ok THEN Err("InvalidState")
    ELSE Ok([idx |-> AsU32(Unwrap(idx)),
             key |-> Base64OrEmpty(UnwrapOr(AsString(got.v), ""))])

RECURSIVE MigrateMessageKeys(_, _, _)
\* The loop over msg_keys_list (the keys Object::keys returned, which are
\* strings) from position j on: Ok(list of (idx, key)) or Err.
MigrateMessageKeys(message_keys_obj, msg_keys_list, j) ==
    IF j > Len(msg_keys_list) THEN Ok(<<>>)
    ELSE ConsResult(MessageKeyEntry(AsF64(JsStr(msg_keys_list[j])),
                                    ReflectGet(message_keys_obj, msg_keys_list[j])),
                    MigrateMessageKeys(message_keys_obj, msg_keys_list, j + 1))

\* The chain entry read, once its message keys are.
ChainEntryWith(key, chain_type, chain_key_obj, message_keys) ==
    IF ~message_keys.ok THEN message_keys
    ELSE Ok([chain_type |-> chain_type, map_key |-> key,
             counter |-> U32Field(chain_key_obj, "counter"),
             key_bytes |-> Base64Field(chain_key_obj, "key"),
             message_keys |-> message_keys.v])

ChainEntryOf(key, chain_type, chain_key_obj, message_keys_obj) ==
    IF ~IsSome(chain_key_obj) THEN Err("InvalidState")
    ELSE IF ~IsSome(message_keys_obj) THEN Err("InvalidState")
    ELSE IF ~IsInstanceOfObject(Unwrap(message_keys_obj)) THEN Err("InvalidState")
    ELSE ChainEntryWith(key, chain_type, Unwrap(chain_key_obj),
             MigrateMessageKeys(Unwrap(message_keys_obj),
                                ObjectKeys(Unwrap(message_keys_obj)), 1))

ChainEntryRead(key, chain) ==
    ChainEntryOf(key, U32Field(chain, "chainType"), get_object(chain, "chainKey"),
                 get_object(chain, "messageKeys"))

\* One iteration of the loop over chain_keys: the chain entry read, or Err.
MigrateChainEntry(chains, key) == ChainEntryRead(key, ReflectGet(chains, key).v)

\* An accumulation that takes every chain that is not the sender chain for a
\* receiver chain.
ChainsAccumulateAll(acc, entry) ==
    IF entry.chain_type = 1 THEN [acc EXCEPT !.sender_chain = Some(entry)]
    ELSE [acc EXCEPT !.receiver_chains = Append(@, entry)]

\* The end of an iteration: chainType 1 replaces the sender chain, chainType 2
\* adds a receiver chain, any other type is dropped.
ChainsAccumulate(acc, entry) ==
    IF entry.chain_type = 1 THEN [acc EXCEPT !.sender_chain = Some(entry)]
    ELSE IF entry.chain_type = 2 THEN [acc EXCEPT !.receiver_chains = Append(@, entry)]
    ELSE acc

RECURSIVE MigrateChains(_, _, _, _)
RECURSIVE MigrateChainsNext(_, _, _, _, _)
MigrateChainsNext(chains, chain_keys, i, acc, entry) ==
    IF ~entry.ok THEN entry
    ELSE MigrateChains(chains, chain_keys, i + 1, ChainsAccumulate(acc, entry.v))

\* The loop over chain_keys from position i on, with the accumulators
\* sender_chain (Option) and receiver_chains (list).
MigrateChains(chains, chain_keys, i, acc) ==
    IF i > Len(chain_keys) THEN Ok(acc)
    ELSE MigrateChainsNext(chains, chain_keys, i, acc,
                           MigrateChainEntry(chains, chain_keys[i]))

\* The message keys of a migrated chain.
MessageKeysVec(msg_keys) ==
    [j \in 1..Len(msg_keys) |->
        [index |-> Some(msg_keys[j].idx), cipher_key |-> Some(msg_keys[j].key),
         mac_key |-> Some(Zeros(MacKeyLen)), iv |-> Some(Zeros(IvLen))]]

\* A Chain of the canonical record built from a legacy chain entry.
ChainStruct(entry, ratchet_key, ratchet_key_private) ==
    [sender_ratchet_key |-> Some(ratchet_key),
     sender_ratchet_key_private |-> ratchet_key_private,
     chain_key |-> Some([index |-> Some(entry.counter), key |-> Some(entry.key_bytes)]),
     message_keys |-> MessageKeysVec(entry.message_keys)]

SenderChainStruct(sender_chain, pub_key, priv_key) ==
    IF IsSome(sender_chain)
    THEN Some(ChainStruct(Unwrap(sender_chain), pub_key, Some(priv_key)))
    ELSE None

ReceiverChainsVec(receiver_chains) ==
    [n \in 1..Len(receiver_chains) |->
        ChainStruct(receiver_chains[n], Base64OrEmpty(receiver_chains[n].map_key), None)]

\* Everything read, once the loop over the chains has ended.
ParseAssemble(session_data, current_ratchet, ephemeral_key_pair, index_info, loop) ==
    IF ~loop.ok THEN loop
    ELSE Ok([registration_id |-> U32Field(session_data, "registrationId"),
             root_key |-> Base64Field(current_ratchet, "rootKey"),
             previous_counter |-> U32Field(current_ratchet, "previousCounter"),
             remote_identity |-> Base64Field(index_info, "remoteIdentityKey"),
             base_key |-> Base64Field(index_info, "baseKey"),
             sender_chain |->
                 SenderChainStruct(loop.v.sender_chain,
                                   Base64Field(ephemeral_key_pair, "pubKey"),
                                   Base64Field(ephemeral_key_pair, "privKey")),
             receiver_chains |-> ReceiverChainsVec(loop.v.receiver_chains)])

ParseChains(session_data, current_ratchet, ephemeral_key_pair, index_info, chains) ==
    IF ~IsSome(chains) THEN Err("InvalidState")
    ELSE IF ~IsInstanceOfObject(Unwrap(chains)) THEN Err("InvalidState")
    ELSE ParseAssemble(session_data, current_ratchet, ephemeral_key_pair, index_info,
             MigrateChains(Unwrap(chains), ObjectKeys(Unwrap(chains)), 1,
                           [sender_chain |-> None, receiver_chains |-> <<>>]))

ParseIndexInfo(session_data, current_ratchet, ephemeral_key_pair, index_info) ==
    IF ~IsSome(index_info) THEN Err("InvalidState")
    ELSE ParseChains(session_data, current_ratchet, ephemeral_key_pair,
                     Unwrap(index_info), get_object(session_data, "_chains"))

ParseEphemeral(session_data, current_ratchet, ephemeral_key_pair) ==
    IF ~IsSome(ephemeral_key_pair) THEN Err("InvalidState")
    ELSE ParseIndexInfo(session_data, current_ratchet, Unwrap(ephemeral_key_pair),
                        get_object(session_data, "indexInfo"))

ParseRatchet(session_data, current_ratchet) ==
    IF ~IsSome(current_ratchet) THEN Err("InvalidState")
    ELSE ParseEphemeral(session_data, Unwrap(current_ratchet),
                        get_object(Unwrap(current_ratchet), "ephemeralKeyPair"))

\* Everything migrate_legacy_json reads from the session object between its
\* two awaits, each `?` in the order of the code: Ok(the fields and chain
\* structures) or Err.
MigrateParse(session_data) ==
    ParseRatchet(session_data, get_object(session_data, "currentRatchet"))

\* The protocol version written into a migrated session.
SessionVersion == 3

\* The SessionStructure assembled at the end of migrate_legacy_json.
MigratedSession(parsed, local_identity, local_reg_id) ==
    [session_version |-> Some(SessionVersion),
     local_identity_public |-> Some(local_identity.public_key),
     remote_identity_public |-> Some(parsed.remote_identity),
     root_key |-> Some(parsed.root_key),
     previous_counter |-> Some(parsed.previous_counter),
     sender_chain |-> parsed.sender_chain,
     receiver_chains |-> parsed.receiver_chains,
     pending_key_exchange |-> None,
     pending_pre_key |-> None,
     remote_registration_id |-> Some(parsed.registration_id),
     local_registration_id |-> Some(local_reg_id),
     needs_refresh |-> None,
     alice_base_key |-> Some(parsed.base_key)]

\* The RecordStructure wrapped around it, encoded.
MigrateBuild(parsed, local_identity, local_reg_id) ==
    ProtoEncode([ty |-> "RecordStructure",
                 current_session |-> Some(MigratedSession(parsed, local_identity, local_reg_id)),
                 previous_sessions |-> <<>>])

(***************************************************************************)
(* Sender keys: js_promise_to_bytes! and migrate_legacy_sender_key.        *)
(***************************************************************************)
\* `val as u8` of an f64: saturating.
AsU8(n) == IF n < 0 THEN 0 ELSE IF n > 255 THEN 255 ELSE n

RECURSIVE BytesOfArray(_, _)
\* The numbers of a JavaScript array from position i on, each cast to u8.
BytesOfArray(a, i) ==
    IF i > Len(a) THEN <<>>
    ELSE (IF IsSome(AsF64(a[i])) THEN <<AsU8(Unwrap(AsF64(a[i])))>> ELSE <<>>)
         \o BytesOfArray(a, i + 1)

\* The last two branches of js_promise_to_bytes!: a Buffer-like object, or
\* the cast to Uint8Array, which fails.
JsToBytesData(data_prop) ==
    IF data_prop.ok /\ data_prop.v.t = "arr"
    THEN Ok(Some(Raw(BytesOfArray(data_prop.v.a, 1))))
    ELSE Err("FfiBindingError")

\* What js_promise_to_bytes! makes of a resolved host value:
\* Ok(None), Ok(Some(byte string)) or Err.
JsToBytes(value) ==
    IF value.t \in {"null", "undefined"} THEN Ok(None)
    ELSE IF value.t = "u8" THEN Ok(Some(value.b))
    ELSE IF ReflectHas(value, "_sessions")
            \/ (ReflectHas(value, "registrationId") /\ ReflectHas(value, "currentRatchet"))
         THEN Ok(Some(SessionSerialize(SessionDeserialize(Raw(<<>>)).v)))
    ELSE JsToBytesData(ReflectGet(value, "data"))

\* The base64 fallback of get_bytes_from_buffer_json.
BytesOfBase64(decoded) == IF decoded.ok THEN Some(decoded.v) ELSE None

\* get_bytes_from_buffer_json on the value read and its type and data properties.
BytesOfValue(val, type_prop, data_prop) ==
    IF val.t \in {"null", "undefined"} THEN None
    ELSE IF type_prop.ok /\ data_prop.ok /\ AsString(type_prop.v) = Some("Buffer")
            /\ data_prop.v.t = "arr"
         THEN Some(BytesOfArray(data_prop.v.a, 1))
    ELSE IF val.t = "u8" /\ val.b.enc = "raw" THEN Some(val.b.raw)
    ELSE IF val.t = "arr" THEN Some(BytesOfArray(val.a, 1))
    ELSE IF IsSome(AsString(val)) THEN BytesOfBase64(Base64Decode(Unwrap(AsString(val))))
    ELSE None

BytesOfGot(got) ==
    IF ~got.ok THEN None
    ELSE BytesOfValue(got.v, ReflectGet(got.v, "type"), ReflectGet(got.v, "data"))

get_bytes_from_buffer_json(obj, key) == BytesOfGot(ReflectGet(obj, key))

\* get_bytes_from_buffer_json(obj, key).unwrap_or_default()
BytesField(obj, key) == UnwrapOr(get_bytes_from_buffer_json(obj, key), <<>>)

\* js_sys::Array::from: Array.from throws on null and undefined, copies an
\* array and gives the empty array for the other values the model holds.
ArrayFrom(v) ==
    IF v.t \in {"null", "undefined"} THEN Err("JsException")
    ELSE IF v.t = "arr" THEN Ok(v.a)
    ELSE Ok(<<>>)

\* get_object(..).map(|v| Array::from(&v)).unwrap_or_default()
ArrayFromOption(o) == IF IsSome(o) THEN ArrayFrom(Unwrap(o)) ELSE Ok(<<>>)

\* The inner loop over senderMessageKeys.
SenderMessageKeys(arr) ==
    [j \in 1..Len(arr) |->
        [iteration |-> Some(U32Field(arr[j], "iteration")),
         seed |-> Some(BytesField(arr[j], "seed"))]]

\* The SenderKeyStateStructure pushed at the end of an iteration.
SenderKeyStateWith(state_obj, sender_chain_key_obj, sender_signing_key_obj, message_keys_arr) ==
    IF ~message_keys_arr.ok THEN message_keys_arr
    ELSE Ok([sender_key_id |-> Some(U32Field(state_obj, "senderKeyId")),
             sender_chain_key |->
                 Some([iteration |-> Some(U32Field(sender_chain_key_obj, "iteration")),
                       seed |-> Some(BytesField(sender_chain_key_obj, "seed"))]),
             sender_signing_key |->
                 Some([public |-> Some(BytesField(sender_signing_key_obj, "public")),
                       private |-> get_bytes_from_buffer_json(sender_signing_key_obj, "private")]),
             sender_message_keys |-> SenderMessageKeys(message_keys_arr.v)])

SenderKeyStateOf(state_obj, sender_chain_key_obj, sender_signing_key_obj) ==
    IF ~IsSome(sender_chain_key_obj) THEN Err("InvalidState")
    ELSE IF ~IsSome(sender_signing_key_obj) THEN Err("InvalidState")
    ELSE SenderKeyStateWith(state_obj, Unwrap(sender_chain_key_obj),
             Unwrap(sender_signing_key_obj),
             ArrayFromOption(get_object(state_obj, "senderMessageKeys")))

\* A migration of one state that writes an empty private key where the
\* legacy state has none.
MigrateSenderKeyStateFilled(state_obj) ==
    Ok([sender_key_id |-> Some(U32Field(state_obj, "senderKeyId")),
        sender_chain_key |->
            Some([iteration |-> Some(U32Field(ReflectGet(state_obj, "senderChainKey").v,
                                              "iteration")),
                  seed |-> Some(BytesField(ReflectGet(state_obj, "senderChainKey").v, "seed"))]),
        sender_signing_key |->
            Some([public |-> Some(BytesField(ReflectGet(state_obj, "senderSigningKey").v,
                                             "public")),
                  private |-> Some(BytesField(ReflectGet(state_obj, "senderSigningKey").v,
                                              "private"))]),
        sender_message_keys |-> <<>>])

\* One iteration of the loop over the legacy array: a SenderKeyStateStructure or Err.
MigrateSenderKeyState(state_obj) ==
    SenderKeyStateOf(state_obj, get_object(state_obj, "senderChainKey"),
                     get_object(state_obj, "senderSigningKey"))

RECURSIVE MigrateSenderKeyStates(_, _)
\* The loop over the legacy array from position i on.
MigrateSenderKeyStates(array, i) ==
    IF i > Len(array) THEN Ok(<<>>)
    ELSE ConsResult(MigrateSenderKeyState(array[i]), MigrateSenderKeyStates(array, i + 1))

\* The SenderKeyRecordStructure of the migrated states, encoded.
SenderKeyRecordOf(states) ==
    IF ~states.ok THEN states
    ELSE Ok(Some(ProtoEncode([ty |-> "SenderKeyRecordStructure",
                              sender_key_states |-> states.v])))

\* migrate_legacy_sender_key: Ok(None), Ok(Some(encoded record)) or Err.
migrate_legacy_sender_key(data) ==
    IF data.enc # "txt" THEN Ok(None)
    ELSE IF ~data.bracket THEN Ok(None)
    ELSE IF ~IsSome(data.json) THEN Err("FfiBindingError")
    ELSE IF Unwrap(data.json).t # "arr" THEN Ok(None)
    ELSE SenderKeyRecordOf(MigrateSenderKeyStates(Unwrap(data.json).a, 1))

\* The three attempts of load_sender_key on the bytes: decode, migrate and
\* decode, decode again for the error.
SenderKeyChoose(data, direct, migrated) ==
    IF direct.ok THEN direct
    ELSE IF migrated.ok /\ IsSome(migrated.v) THEN SenderKeyDeserialize(Unwrap(migrated.v))
    ELSE SenderKeyDeserialize(data)

\* What load_sender_key makes of the bytes the host returned:
\* Ok(record to cache and return) or Err.
SenderKeyFromBytes(data) ==
    SenderKeyChoose(data, SenderKeyDeserialize(data), migrate_legacy_sender_key(data))

(***************************************************************************)
(* Inputs: store keys, the records the protocol engine stores and the      *)
(* values a host store may hold.                                           *)
(***************************************************************************)
\* ProtocolAddress::to_string() of the addresses in use ("name.device_id").
SessionAddrs == {"alice.1"}

\* SenderKeyName::new: the sender id is "{name}::{device_id}" of the sender.
SenderKeyNameNew(group_id, sender) ==
    [group_id |-> group_id,
     sender_id |-> sender.name \o "::" \o ToString(sender.device_id)]

\* The sender key names in use: two groups, one sender.
SenderKeyNames ==
    {SenderKeyNameNew(g, [name |-> "alice", device_id |-> 1]) : g \in {"group", "crew"}}

GroupSenderKeyName == SenderKeyNameNew("group", [name |-> "alice", device_id |-> 1])

\* A key string made of the sender id alone.
SenderIdOnly(sender_key_name) == sender_key_name.sender_id

\* format!("{}::{}", sender_key_name.group_id(), sender_key_name.sender_id())
key_id(sender_key_name) ==
    sender_key_name.group_id \o "::" \o sender_key_name.sender_id

\* "{group_id}::{sender_id}" of the sender keys in use.
SenderKeyIds == {key_id(n) : n \in SenderKeyNames}

\* A session as the protocol engine builds it; n tells the sessions apart.
EngineSession(n) ==
    [session_version |-> Some(SessionVersion),
     local_identity_public |-> Some(<<DjbType, 1>>),
     remote_identity_public |-> Some(<<DjbType, 2>>),
     root_key |-> Some(<<n>>),
     previous_counter |-> Some(0),
     sender_chain |-> Some([sender_ratchet_key |-> Some(<<n>>),
                            sender_ratchet_key_private |-> Some(<<n>>),
                            chain_key |-> Some([index |-> Some(0), key |-> Some(<<n>>)]),
                            message_keys |-> <<>>]),
     receiver_chains |-> <<>>,
     pending_key_exchange |-> None,
     pending_pre_key |-> None,
     remote_registration_id |-> Some(7),
     local_registration_id |-> Some(9),
     needs_refresh |-> None,
     alice_base_key |-> Some(<<n>>)]

EngineRecord(n) ==
    [ty |-> "RecordStructure", current_session |-> Some(EngineSession(n)),
     previous_sessions |-> <<>>]

\* The records store_session is called with.
StoreRecords == {EngineRecord(1), EngineRecord(2)}

EngineSenderKeyRecord(n) ==
    [ty |-> "SenderKeyRecordStructure",
     sender_key_states |->
        <<[sender_key_id |-> Some(n),
           sender_chain_key |-> Some([iteration |-> Some(0), seed |-> Some(<<n>>)]),
           sender_signing_key |-> Some([public |-> Some(<<DjbType, n>>), private |-> None]),
           sender_message_keys |-> <<>>]>>]

\* The records store_sender_key is called with.
StoreSenderKeyRecords == {EngineSenderKeyRecord(1), EngineSenderKeyRecord(2)}

\* A legacy chain entry of the _chains map.
LegacyChain(chain_type, counter, key_b64, message_keys) ==
    JsObj(<<Prop("chainType", JsNum(chain_type)),
            Prop("chainKey", JsObj(<<Prop("counter", JsNum(counter)),
                                     Prop("key", JsStr(key_b64))>>)),
            Prop("messageKeys", JsObj(message_keys))>>)

LegacyRegistrationId == Prop("registrationId", JsNum(7))

LegacyCurrentRatchet ==
    Prop("currentRatchet",
         JsObj(<<Prop("rootKey", JsStr("AQ==")),
                 Prop("previousCounter", JsNum(2)),
                 Prop("ephemeralKeyPair", JsObj(<<Prop("pubKey", JsStr("Bg==")),
                                                  Prop("privKey", JsStr("Bw=="))>>))>>))

LegacyIndexInfo ==
    Prop("indexInfo", JsObj(<<Prop("remoteIdentityKey", JsStr("CA==")),
                              Prop("baseKey", JsStr("AQ=="))>>))

LegacyChains ==
    Prop("_chains", JsObj(<<Prop("Ag==", LegacyChain(1, 3, "Aw==", <<>>)),
                            Prop("BA==", LegacyChain(2, 1, "BQ==", <<>>))>>))

\* A well-formed direct legacy session and the same with one field missing.
LegacyDirect ==
    JsObj(<<LegacyRegistrationId, LegacyCurrentRatchet, LegacyIndexInfo, LegacyChains>>)

LegacyNoChains == JsObj(<<LegacyRegistrationId, LegacyCurrentRatchet, LegacyIndexInfo>>)

LegacyNoIndexInfo == JsObj(<<LegacyRegistrationId, LegacyCurrentRatchet, LegacyChains>>)

LegacyNoRatchet == JsObj(<<LegacyRegistrationId, LegacyIndexInfo, LegacyChains>>)

\* A _sessions wrapper around the given sessions.
LegacyWrapper(sessions) == JsObj(<<Prop("_sessions", JsObj(sessions))>>)

\* A second well-formed legacy session, told apart from LegacyDirect by its
\* registration id, root key and previous counter.
LegacyOtherRegistrationId == Prop("registrationId", JsNum(8))

LegacyOtherRatchet ==
    Prop("currentRatchet",
         JsObj(<<Prop("rootKey", JsStr("Ag==")),
                 Prop("previousCounter", JsNum(4)),
                 Prop("ephemeralKeyPair", JsObj(<<Prop("pubKey", JsStr("Bg==")),
                                                  Prop("privKey", JsStr("Bw=="))>>))>>))

LegacyOther ==
    JsObj(<<LegacyOtherRegistrationId, LegacyOtherRatchet, LegacyIndexInfo, LegacyChains>>)

\* A wrapper holding two well-formed legacy sessions.
LegacyTwo == LegacyWrapper(<<Prop("s1", LegacyDirect), Prop("s2", LegacyOther)>>)

\* The same two sessions, inserted in the other order under keys of which one
\* is an array index: Object.keys lists the index key first.
LegacyTwoIndexed == LegacyWrapper(<<Prop("s2", LegacyOther), Prop("1", LegacyDirect)>>)

\* The wrappers that hold two well-formed legacy sessions.
TwoSessionWrappers == {LegacyTwo, LegacyTwoIndexed}

\* An object that is a wrapper (of LegacyDirect) and carries the fields of a
\* direct session (those of LegacyOther) as well.
LegacyBoth ==
    JsObj(<<Prop("_sessions", JsObj(<<Prop("s1", LegacyDirect)>>)),
            LegacyOtherRegistrationId, LegacyOtherRatchet, LegacyIndexInfo, LegacyChains>>)

\* Chains that carry message keys: decimal-string index mapped to a base64 key.
LegacyKeyedChains ==
    Prop("_chains",
         JsObj(<<Prop("Ag==", LegacyChain(1, 3, "Aw==", <<>>)),
                 Prop("BA==", LegacyChain(2, 1, "BQ==",
                                          <<Prop("0", JsStr("AQ==")),
                                            Prop("2", JsStr("Ag=="))>>))>>))

\* A well-formed legacy session whose receiver chain carries message keys.
LegacyKeyed ==
    JsObj(<<LegacyRegistrationId, LegacyCurrentRatchet, LegacyIndexInfo, LegacyKeyedChains>>)

\* A chain entry without chainType.
LegacyUntypedChain ==
    JsObj(<<Prop("chainKey", JsObj(<<Prop("counter", JsNum(6)), Prop("key", JsStr("Bg=="))>>)),
            Prop("messageKeys", JsObj(<<>>))>>)

\* Chains of every kind, inserted in this order: a receiver chain, the
\* sender chain, a chain of type 3, a receiver chain under an index key
\* (enumerated first), one without type and a third receiver chain.
LegacyManyChains ==
    Prop("_chains",
         JsObj(<<Prop("BA==", LegacyChain(2, 1, "BQ==", <<>>)),
                 Prop("Ag==", LegacyChain(1, 3, "Aw==", <<>>)),
                 Prop("Bg==", LegacyChain(3, 4, "Bw==", <<>>)),
                 Prop("1", LegacyChain(2, 5, "AQ==", <<>>)),
                 Prop("Bw==", LegacyUntypedChain),
                 Prop("CA==", LegacyChain(2, 2, "Ag==", <<>>))>>))

LegacyMany ==
    JsObj(<<LegacyRegistrationId, LegacyCurrentRatchet, LegacyIndexInfo, LegacyManyChains>>)

\* A legacy session with receiver chains only.
LegacyNoSenderChains ==
    Prop("_chains", JsObj(<<Prop("CA==", LegacyChain(2, 2, "Ag==", <<>>)),
                            Prop("BA==", LegacyChain(2, 1, "BQ==", <<>>))>>))

LegacyNoSender ==
    JsObj(<<LegacyRegistrationId, LegacyCurrentRatchet, LegacyIndexInfo,
            LegacyNoSenderChains>>)

\* The legacy sessions whose chains are migrated.
MigrateSessionValues ==
    {LegacyDirect, LegacyMany, LegacyNoSender, LegacyWrapper(<<Prop("s1", LegacyMany)>>),
     LegacyTwo}

\* Legacy objects that are recognized as a session and lack a required field.
LegacyIncomplete ==
    {LegacyNoChains, LegacyNoIndexInfo,
     LegacyWrapper(<<Prop("s1", LegacyNoRatchet)>>),
     LegacyWrapper(<<Prop("s1", LegacyNoChains)>>)}

\* Values that are neither bytes nor a recognized legacy shape.
UnrecognizedValues ==
    {JsObj(<<Prop("foo", JsNum(1))>>), JsStr("junk"), JsNum(5), LegacyNoRatchet,
     JsObj(<<LegacyRegistrationId>>)}

\* Bytes that are no protobuf encoding.
Garbage == Raw(<<255>>)

\* What loadSession may resolve to at the start.
HostSessionValues ==
    {JsNull, JsU8(SessionSerialize(EngineRecord(0))), JsU8(Garbage),
     LegacyDirect, LegacyWrapper(<<Prop("s1", LegacyDirect)>>),
     LegacyWrapper(<<>>), LegacyTwo, LegacyTwoIndexed, LegacyBoth, LegacyKeyed}
    \cup LegacyIncomplete \cup UnrecognizedValues

\* Host identity key pairs: the public key with and without its type byte.
HostIdentity(public_len) ==
    JsObj(<<Prop("pubKey",
                 JsU8(Raw(IF public_len = PrefixedKeyLen
                          THEN <<DjbType>> \o [i \in 1..KeyLen |-> 1]
                          ELSE [i \in 1..public_len |-> 1]))),
            Prop("privKey", JsU8(Raw([i \in 1..KeyLen |-> 2])))>>)

\* (getIdentityKeyPair, getLocalRegistrationId) answers of a host.
HostIdentityScenarios ==
    {<<HostIdentity(KeyLen), JsNum(9)>>, <<HostIdentity(PrefixedKeyLen), JsNum(9)>>,
     <<JsNull, JsNum(9)>>, <<HostIdentity(KeyLen), JsUndefined>>}

\* One legacy sender-key state as JSON.parse yields it.
LegacySenderKeyState(id, with_private) ==
    JsObj(<<Prop("senderKeyId", JsNum(id)),
            Prop("senderChainKey", JsObj(<<Prop("iteration", JsNum(id + 2)),
                                           Prop("seed", JsStr("AQ=="))>>)),
            Prop("senderSigningKey",
                 JsObj(IF with_private
                       THEN <<Prop("public", JsStr("Ag==")), Prop("private", JsStr("Aw=="))>>
                       ELSE <<Prop("public", JsStr("Ag=="))>>)),
            Prop("senderMessageKeys", JsArr(<<>>))>>)

\* What loadSenderKey may resolve to at the start.
HostSenderKeyValues ==
    {JsNull, JsU8(SenderKeySerialize(EngineSenderKeyRecord(0))), JsU8(Garbage),
     JsU8(Txt(TRUE, Some(JsArr(<<LegacySenderKeyState(1, TRUE),
                                 LegacySenderKeyState(2, FALSE)>>)))),
     JsU8(Txt(TRUE, Some(JsArr(<<>>)))),
     JsU8(Txt(TRUE, None)), JsU8(Txt(FALSE, Some(JsObj(<<>>)))),
     JsObj(<<Prop("foo", JsNum(1))>>)}

\* ProtocolAddress::name() and device_id() of the remote addresses whose
\* identity is asked about, and the serialized identity keys asked about.
AddressNames == {"alice", "bob"}

DeviceIds == {1, 2}

IdentityKeys == {<<DjbType, 2>>, <<DjbType, 3>>}

\* What the isTrustedIdentity and saveIdentity promises may resolve to.
TrustAnswers == {JsBool(TRUE), JsBool(FALSE), JsUndefined, JsNull}

\* The remote address of the session builders, with its to_string().
RemoteAddress == [name |-> "alice", device_id |-> 1]

AddressString(address) == address.name \o "." \o ToString(address.device_id)

\* A pre-key bundle as initOutgoing and processPreKeyBundle receive it:
\* whether it deserializes, and whether its signed pre-key signature
\* verifies under its identity key.
Bundle(well_formed, signature_valid) ==
    [well_formed |-> well_formed, signature_valid |-> signature_valid,
     identity_key |-> <<DjbType, 2>>, registration_id |-> 7]

BundleInputs == {Bundle(TRUE, TRUE), Bundle(FALSE, TRUE), Bundle(TRUE, FALSE)}

\* A stored record whose current session has no sender chain.
ChainlessRecord ==
    [ty |-> "RecordStructure",
     current_session |-> Some([EngineSession(0) EXCEPT !.sender_chain = None]),
     previous_sessions |-> <<>>]

\* What loadSession may resolve to when a session builder starts.
BuilderSessionValues ==
    {JsNull, JsU8(SessionSerialize(EngineRecord(0))), JsU8(SessionSerialize(ChainlessRecord)),
     JsU8(Raw(<<>>)), JsU8(Garbage), LegacyDirect}

\* The ids get_pre_key, get_signed_pre_key and remove_pre_key are called with.
PreKeyIds == {1, 2}

\* A pre-key as a host returns it: the key pair inline, the id under keyId.
HostPreKey(id) ==
    JsObj(<<Prop("keyId", JsNum(id)),
            Prop("pubKey", JsU8(Raw([i \in 1..KeyLen |-> id]))),
            Prop("privKey", JsU8(Raw([i \in 1..KeyLen |-> id + 2])))>>)

\* A signed pre-key as a host returns it, with and without its signature.
HostSignedPreKey(id, signed) ==
    JsObj(<<Prop("keyId", JsNum(id)),
            Prop("keyPair", JsObj(<<Prop("pubKey", JsU8(Raw([i \in 1..KeyLen |-> id]))),
                                    Prop("privKey",
                                         JsU8(Raw([i \in 1..KeyLen |-> id + 2])))>>))>>
          \o (IF signed THEN <<Prop("signature", JsU8(Raw(<<id>>)))>> ELSE <<>>))

\* What loadPreKey and loadSignedPreKey may resolve to for an id at the start.
HostPreKeyValues(id) == {JsNull, HostPreKey(id), JsObj(<<Prop("keyId", JsNum(id))>>)}

HostSignedPreKeyValues(id) ==
    {JsNull, HostSignedPreKey(id, TRUE), HostSignedPreKey(id, FALSE)}

(***************************************************************************)
(* State.                                                                  *)
(***************************************************************************)
VARIABLES
    hostSessions,    \* host store: address string -> value loadSession resolves to
    hostSenderKeys,  \* host store: sender key id -> value loadSenderKey resolves to
    hostIdentity,    \* what getIdentityKeyPair resolves to
    hostRegId,       \* what getLocalRegistrationId resolves to
    cellOf,          \* task -> the Rc cells its adapter handle points to (0: no handle yet)
    noise,           \* the NoiseSession, and the counters its ciphers were used with
    cache,           \* Rc cells -> the five RefCell contents
    pc,              \* task -> the await its current operation is suspended at, or "idle"
    op,              \* task -> the operation it runs or ran last
    res,             \* task -> the result of its last operation
    calls,           \* task -> host calls issued by its current or last operation
    loc,             \* task -> locals of the suspended operation
    nOps,            \* operations started so far
    lastRec,         \* address -> the record last stored or loaded through a handle,
                     \*   by which task, and whether a load ever returned one
    lastStore,       \* store key -> the last store call started for it
    firstIdentity,   \* the first successful get_identity_key_pair: its task and pair
    hostPreKeys,     \* host store: pre-key id -> value loadPreKey resolves to
    hostSignedPreKeys, \* host store: signed pre-key id -> value loadSignedPreKey resolves to
    trustLog         \* the (name, device id, key) the host vouched for so far

vars == <<hostSessions, hostSenderKeys, hostIdentity, hostRegId, cellOf, noise, cache,
          pc, op, res, calls, loc, nOps, lastRec, lastStore, firstIdentity,
          hostPreKeys, hostSignedPreKeys, trustLog>>

\* No NoiseSession was constructed.
NoNoise == None

Tasks == 1..NumTasks

Cells == 1..NumTasks

\* JsStorageAdapter::new: every cache empty.
EmptyCache ==
    [cached_identity_key_pair |-> None,
     cached_registration_id |-> None,
     cached_sessions |-> [a \in SessionAddrs |-> None],
     cached_sender_keys |-> [k \in SenderKeyIds |-> None],
     cached_identities |-> [n \in AddressNames |-> None]]

\* kind, key and rec are the call; the other fields record what the call
\* met: hit, a cache hit at its start; got, the value its host read resolved
\* to; rejected, a host promise of it rejected; migrated, it went through
\* migrate_legacy_json; seen, lastRec[key] when it started (for the identity
\* getter: firstIdentity); seen_store and at_end_store, lastStore[key] when
\* it started and when it returned; seen_identity, firstIdentity when it
\* started; left, the cache entry it left behind.
NoOp ==
    [kind |-> "none", key |-> "", rec |-> None, hit |-> FALSE, got |-> None,
     rejected |-> FALSE, migrated |-> FALSE, seen |-> None, seen_store |-> None,
     at_end_store |-> None, seen_identity |-> None, left |-> None,
     arg |-> None, log |-> {}, first |-> None, processed |-> FALSE]

NoLoc == [session_data |-> JsUndefined, parsed |-> None, identity |-> None,
          bytes |-> Raw(<<>>), record |-> None, session |-> None]

Pending == Err("pending")

\* The value of Ok(()).
Unit == <<>>

\* A clone that copies the caches instead of sharing them.
CloneCellDeep(c, u) == u

\* The cells a clone of a handle on cell c, made for task u, points to:
\* #[derive(Clone)] clones the five Rc pointers, not their contents.
CloneCell(c, u) == c

\* The hosts at the start: (loadSession value, getIdentityKeyPair value,
\* getLocalRegistrationId value, loadSenderKey value).
HostScenarios ==
    {<<v, HostIdentity(KeyLen), JsNum(9), JsNull>> : v \in HostSessionValues}
    \cup {<<v, sc[1], sc[2], JsNull>> :
              v \in {LegacyDirect, LegacyWrapper(<<Prop("s1", LegacyDirect)>>)},
              sc \in HostIdentityScenarios}
    \cup {<<JsNull, HostIdentity(KeyLen), JsNum(9), v>> : v \in HostSenderKeyValues}

\* One handle, no operation started, every cache empty.
InitTasks ==
    /\ cellOf = [t \in Tasks |-> IF t = 1 THEN 1 ELSE 0]
    /\ noise = NoNoise
    /\ cache = [c \in Cells |-> EmptyCache]
    /\ pc = [t \in Tasks |-> "idle"]
    /\ op = [t \in Tasks |-> NoOp]
    /\ res = [t \in Tasks |-> Pending]
    /\ calls = [t \in Tasks |-> <<>>]
    /\ loc = [t \in Tasks |-> NoLoc]
    /\ nOps = 0
    /\ lastRec = [a \in SessionAddrs |-> None]
    /\ lastStore = [a \in SessionAddrs \cup SenderKeyIds |-> None]
    /\ firstIdentity = None
    /\ trustLog = {}

\* A host with no session, no sender key and a well-formed identity.
InitHostOfNothing ==
    /\ hostSessions = [a \in SessionAddrs |-> JsNull]
    /\ hostIdentity = HostIdentity(KeyLen)
    /\ hostRegId = JsNum(9)
    /\ hostSenderKeys = [k \in SenderKeyIds |-> JsNull]

\* A host without pre-keys.
InitNoPreKeys ==
    /\ hostPreKeys = [id \in PreKeyIds |-> JsNull]
    /\ hostSignedPreKeys = [id \in PreKeyIds |-> JsNull]

Init ==
    /\ \E h \in HostScenarios :
          /\ hostSessions = [a \in SessionAddrs |-> h[1]]
          /\ hostIdentity = h[2]
          /\ hostRegId = h[3]
          /\ hostSenderKeys = [k \in SenderKeyIds |-> h[4]]
    /\ InitNoPreKeys
    /\ trustLog = {}
    /\ cellOf = [t \in Tasks |-> IF t = 1 THEN 1 ELSE 0]
    /\ noise = NoNoise
    /\ cache = [c \in Cells |-> EmptyCache]
    /\ pc = [t \in Tasks |-> "idle"]
    /\ op = [t \in Tasks |-> NoOp]
    /\ res = [t \in Tasks |-> Pending]
    /\ calls = [t \in Tasks |-> <<>>]
    /\ loc = [t \in Tasks |-> NoLoc]
    /\ nOps = 0
    /\ lastRec = [a \in SessionAddrs |-> None]
    /\ lastStore = [a \in SessionAddrs \cup SenderKeyIds |-> None]
    /\ firstIdentity = None

hostVars == <<hostSessions, hostSenderKeys, hostIdentity, hostRegId, hostPreKeys,
              hostSignedPreKeys>>

\* A task may start an operation: it has a handle, runs nothing, budget left.
CanStart(t) == cellOf[t] # 0 /\ pc[t] = "idle" /\ nOps < MaxOps

\* let x = self.storage_adapter.clone(): task u gets a clone of task t's handle.
Clone(t, u) ==
    /\ cellOf[t] # 0 /\ cellOf[u] = 0
    /\ cellOf' = [cellOf EXCEPT ![u] = CloneCell(cellOf[t], u)]
    /\ cache' = [cache EXCEPT ![CloneCell(cellOf[t], u)] = cache[cellOf[t]]]
    /\ UNCHANGED <<hostVars, trustLog, noise, pc, op, res, calls, loc, nOps, lastRec, lastStore,
                   firstIdentity>>

(***************************************************************************)
(* Each operator below is the code from one suspension point to the next:  *)
(* it yields where the task stops (pc), the result if it returned, the     *)
(* cache contents, the locals kept across the await and the host call      *)
(* issued, if any.                                                         *)
(***************************************************************************)
Returned(result, cell) ==
    [pc |-> "idle", res |-> result, cell |-> cell, loc |-> NoLoc, call |-> None]

Suspended(at, cell, locals, call) ==
    [pc |-> at, res |-> Pending, cell |-> cell, loc |-> locals, call |-> Some(call)]

\* js_to_signal_error: the operation ends with the error of a rejected host call.
RejectedStep(cell) == Returned(Err("FfiBindingError"), cell)

\* The task takes the step s of its operation; base is the list of host
\* calls the operation had issued before.
Advance(t, s, base) ==
    /\ pc' = [pc EXCEPT ![t] = s.pc]
    /\ res' = [res EXCEPT ![t] = s.res]
    /\ cache' = [cache EXCEPT ![cellOf[t]] = s.cell]
    /\ loc' = [loc EXCEPT ![t] = s.loc]
    /\ calls' = [calls EXCEPT ![t] = IF IsSome(s.call) THEN Append(base, Unwrap(s.call))
                                     ELSE base]

(***************************************************************************)
(* get_identity_key_pair and get_local_registration_id.                    *)
(***************************************************************************)
\* A get_identity_key_pair that returns the pair without caching it.
IdentityUncached(cell, key_pair) == [res |-> key_pair, cell |-> cell]

\* The end of get_identity_key_pair: a pair parsed is cached and returned.
IdentityCached(cell, key_pair) ==
    [res |-> key_pair,
     cell |-> IF key_pair.ok
              THEN [cell EXCEPT !.cached_identity_key_pair = Some(key_pair.v)]
              ELSE cell]

\* get_identity_key_pair after the host's promise resolved to value.
IdentityAfterHost(cell, value) == IdentityCached(cell, IdentityFromHost(value))

\* The end of get_local_registration_id.
RegistrationCached(cell, registration) ==
    [res |-> registration,
     cell |-> IF registration.ok
              THEN [cell EXCEPT !.cached_registration_id = Some(registration.v)]
              ELSE cell]

\* get_local_registration_id after the host's promise resolved to value.
RegistrationAfterHost(cell, value) ==
    RegistrationCached(cell, RegistrationFromHost(value))

\* The first pair a get_identity_key_pair call returned, from then on.
NoteIdentity(t, result) ==
    firstIdentity' = IF ~IsSome(firstIdentity) /\ result.ok
                     THEN Some([by |-> t, pair |-> result.v])
                     ELSE firstIdentity

(***************************************************************************)
(* load_session, with migrate_legacy_json inlined at its call.             *)
(***************************************************************************)
\* A load_session that takes undecodable bytes for an absent session.
LoadSessionCacheLenient(cell, a, record) ==
    IF record.ok
    THEN Returned(Ok(Some(record.v)), [cell EXCEPT !.cached_sessions[a] = Some(record.v)])
    ELSE Returned(Ok(None), cell)

\* A load_session that returns the record decoded without caching it.
LoadSessionUncached(cell, a, record) ==
    IF record.ok THEN Returned(Ok(Some(record.v)), cell) ELSE Returned(record, cell)

\* The final match of load_session on the record decoded.
LoadSessionCache(cell, a, record) ==
    IF record.ok
    THEN Returned(Ok(Some(record.v)), [cell EXCEPT !.cached_sessions[a] = Some(record.v)])
    ELSE Returned(record, cell)

LoadSessionFinish(cell, a, data) == LoadSessionCache(cell, a, SessionDeserialize(data))

\* migrate_legacy_json from the fields parsed to its second await
\* (get_local_registration_id), or to the end when the id is cached.
MigrateAfterParse(cell, a, local_identity, parsed) ==
    IF ~parsed.ok THEN Returned(parsed, cell)
    ELSE IF IsSome(cell.cached_registration_id)
         THEN LoadSessionFinish(cell, a,
                  MigrateBuild(parsed.v, local_identity, Unwrap(cell.cached_registration_id)))
         ELSE Suspended("migrate_registration", cell,
                        [NoLoc EXCEPT !.parsed = Some(parsed.v),
                                      !.identity = Some(local_identity)],
                        "getLocalRegistrationId")

\* migrate_legacy_json from the end of its first await on.
MigrateAfterIdentity(cell, a, session_data, local_identity) ==
    MigrateAfterParse(cell, a, local_identity, MigrateParse(session_data))

\* A migrate_legacy_json that fetches the identity key pair before it looks
\* at the shape detected.
MigrateDetectedEager(cell, a, detected) ==
    IF detected.kind = "err" THEN Returned(Err(detected.e), cell)
    ELSE Suspended("migrate_identity", cell,
                   [NoLoc EXCEPT !.session_data =
                        IF detected.kind = "session" THEN detected.data ELSE JsObj(<<>>)],
                   "getIdentityKeyPair")

\* migrate_legacy_json from the shape detected to its first await
\* (get_identity_key_pair), or past it when the pair is cached.
MigrateDetected(cell, a, detected) ==
    IF detected.kind = "none" THEN Returned(Ok(None), cell)
    ELSE IF detected.kind = "err" THEN Returned(Err(detected.e), cell)
    ELSE IF IsSome(cell.cached_identity_key_pair)
         THEN MigrateAfterIdentity(cell, a, detected.data,
                                   Unwrap(cell.cached_identity_key_pair))
         ELSE Suspended("migrate_identity", cell,
                        [NoLoc EXCEPT !.session_data = detected.data],
                        "getIdentityKeyPair")

MigrateLegacyJson(cell, a, value) == MigrateDetected(cell, a, MigrateDetect(value))

\* load_session after the host's loadSession promise resolved to value.
LoadSessionAfterHost(cell, a, value) ==
    IF value.t \in {"null", "undefined"} THEN Returned(Ok(None), cell)
    ELSE IF value.t = "u8" THEN LoadSessionFinish(cell, a, value.b)
    ELSE MigrateLegacyJson(cell, a, value)

\* load_session up to its first await: the cache lookup.
LoadSessionBegin(cell, a) ==
    IF IsSome(cell.cached_sessions[a])
    THEN Returned(Ok(Some(Unwrap(cell.cached_sessions[a]))), cell)
    ELSE Suspended("load_session", cell, NoLoc, "loadSession")

\* `self.get_identity_key_pair().await?` inside migrate_legacy_json, resumed.
MigrateIdentityContinue(a, session_data, got) ==
    IF got.res.ok THEN MigrateAfterIdentity(got.cell, a, session_data, got.res.v)
    ELSE Returned(got.res, got.cell)

\* `self.get_local_registration_id().await?` inside migrate_legacy_json, resumed.
MigrateRegistrationContinue(a, parsed, local_identity, got) ==
    IF got.res.ok
    THEN LoadSessionFinish(got.cell, a, MigrateBuild(parsed, local_identity, got.res.v))
    ELSE Returned(got.res, got.cell)

\* The lastRec entry of a load_session by task t that returned record.
Loaded(t, record) == Some([src |-> "load", by |-> t, rec |-> record, loaded |-> TRUE])

\* A step s of load_session after its start, with what it leaves behind.
LoadSessionStep(t, s, rejected) ==
    /\ Advance(t, s, calls[t])
    /\ op' = [op EXCEPT ![t].rejected = rejected,
                        ![t].at_end_store = lastStore[op[t].key],
                        ![t].left = s.cell.cached_sessions[op[t].key]]
    /\ lastRec' = IF s.pc = "idle" /\ s.res.ok /\ IsSome(s.res.v)
                  THEN [lastRec EXCEPT ![op[t].key] = Loaded(t, Unwrap(s.res.v))]
                  ELSE lastRec

\* The first step after the host read: the value read is noted first.
LoadSessionGot(t, value, s) ==
    /\ Advance(t, s, calls[t])
    /\ op' = [op EXCEPT ![t].got = Some(value),
                        ![t].migrated = (value.t \notin {"null", "undefined", "u8"}),
                        ![t].at_end_store = lastStore[op[t].key],
                        ![t].left = s.cell.cached_sessions[op[t].key]]
    /\ lastRec' = IF s.pc = "idle" /\ s.res.ok /\ IsSome(s.res.v)
                  THEN [lastRec EXCEPT ![op[t].key] = Loaded(t, Unwrap(s.res.v))]
                  ELSE lastRec

LoadSessionStarted(t, a, s) ==
    /\ Advance(t, s, <<>>)
    /\ op' = [op EXCEPT ![t] = [NoOp EXCEPT !.kind = "load_session", !.key = a,
                                            !.hit = (s.pc = "idle"),
                                            !.seen = lastRec[a],
                                            !.seen_store = lastStore[a],
                                            !.at_end_store = lastStore[a],
                                            !.seen_identity = firstIdentity,
                                            !.left = s.cell.cached_sessions[a]]]
    /\ lastRec' = IF s.pc = "idle"
                  THEN [lastRec EXCEPT ![a] = Loaded(t, Unwrap(s.res.v))]
                  ELSE lastRec

LoadSessionStart(t, a) ==
    /\ CanStart(t)
    /\ LoadSessionStarted(t, a, LoadSessionBegin(cache[cellOf[t]], a))
    /\ nOps' = nOps + 1
    /\ UNCHANGED <<hostVars, trustLog, cellOf, noise, lastStore, firstIdentity>>

\* The loadSession promise settles and load_session runs to its next await.
LoadSessionResolve(t) ==
    /\ pc[t] = "load_session"
    /\ \/ LoadSessionStep(t, RejectedStep(cache[cellOf[t]]), TRUE)
       \/ LoadSessionGot(t, hostSessions[op[t].key],
              LoadSessionAfterHost(cache[cellOf[t]], op[t].key, hostSessions[op[t].key]))
    /\ UNCHANGED <<hostVars, trustLog, cellOf, noise, nOps, lastStore, firstIdentity>>

\* A step of migrate_legacy_json that follows its get_identity_key_pair call.
MigrateIdentityStep(t, got) ==
    /\ LoadSessionStep(t, MigrateIdentityContinue(op[t].key, loc[t].session_data, got), FALSE)
    /\ NoteIdentity(t, got.res)

\* The getIdentityKeyPair promise awaited inside migrate_legacy_json settles.
MigrateIdentityResolve(t) ==
    /\ pc[t] = "migrate_identity"
    /\ \/ /\ LoadSessionStep(t, RejectedStep(cache[cellOf[t]]), TRUE)
          /\ UNCHANGED firstIdentity
       \/ MigrateIdentityStep(t, IdentityAfterHost(cache[cellOf[t]], hostIdentity))
    /\ UNCHANGED <<hostVars, trustLog, cellOf, noise, nOps, lastStore>>

\* The getLocalRegistrationId promise awaited inside migrate_legacy_json settles.
MigrateRegistrationResolve(t) ==
    /\ pc[t] = "migrate_registration"
    /\ \/ LoadSessionStep(t, RejectedStep(cache[cellOf[t]]), TRUE)
       \/ LoadSessionStep(t,
              MigrateRegistrationContinue(op[t].key, Unwrap(loc[t].parsed),
                  Unwrap(loc[t].identity),
                  RegistrationAfterHost(cache[cellOf[t]], hostRegId)),
              FALSE)
    /\ UNCHANGED <<hostVars, trustLog, cellOf, noise, nOps, lastStore, firstIdentity>>

(***************************************************************************)
(* store_session.                                                          *)
(***************************************************************************)
\* A store_session that calls the host without updating the cache first.
StoreSessionWriteThrough(cell, a, record) ==
    Suspended("store_session", cell, [NoLoc EXCEPT !.bytes = SessionSerialize(record)],
              "storeSession")

\* A store_session that drops the cache entry when the host write fails.
StoreSessionRolledBack(cell, a) ==
    RejectedStep([cell EXCEPT !.cached_sessions[a] = None])

\* store_session up to its await: the cache insert, then the host call.
StoreSessionBegin(cell, a, record) ==
    Suspended("store_session", [cell EXCEPT !.cached_sessions[a] = Some(record)],
              [NoLoc EXCEPT !.bytes = SessionSerialize(record)], "storeSession")

\* `.await.map_err(js_to_signal_error)?` on a rejected storeSession promise.
StoreSessionRejected(cell, a) == RejectedStep(cell)

StoreSessionStarted(t, a, record, s) ==
    /\ Advance(t, s, <<>>)
    /\ op' = [op EXCEPT ![t] = [NoOp EXCEPT !.kind = "store_session", !.key = a,
                                            !.rec = Some(record),
                                            !.seen = lastRec[a],
                                            !.seen_store = lastStore[a],
                                            !.left = s.cell.cached_sessions[a]]]

StoreSessionStart(t, a, record) ==
    /\ CanStart(t)
    /\ StoreSessionStarted(t, a, record, StoreSessionBegin(cache[cellOf[t]], a, record))
    /\ lastRec' = [lastRec EXCEPT ![a] =
                      Some([src |-> "store", by |-> t, rec |-> record,
                            loaded |-> IsSome(@) /\ Unwrap(@).loaded])]
    /\ lastStore' = [lastStore EXCEPT ![a] = Some([by |-> t, rec |-> record,
                                                   rejected |-> FALSE])]
    /\ nOps' = nOps + 1
    /\ UNCHANGED <<hostVars, trustLog, cellOf, noise, firstIdentity>>

\* The end of store_session, with what it leaves behind.
StoreSessionStep(t, s, rejected) ==
    /\ Advance(t, s, calls[t])
    /\ op' = [op EXCEPT ![t].rejected = rejected,
                        ![t].at_end_store = lastStore[op[t].key],
                        ![t].left = s.cell.cached_sessions[op[t].key]]
    /\ lastStore' = IF rejected /\ lastStore[op[t].key] =
                                       Some([by |-> t, rec |-> Unwrap(op[t].rec),
                                             rejected |-> FALSE])
                    THEN [lastStore EXCEPT ![op[t].key] =
                              Some([Unwrap(@) EXCEPT !.rejected = TRUE])]
                    ELSE lastStore

\* The storeSession promise settles: the host kept the bytes, or rejected.
StoreSessionResolve(t) ==
    /\ pc[t] = "store_session"
    /\ \/ /\ StoreSessionStep(t, StoreSessionRejected(cache[cellOf[t]], op[t].key), TRUE)
          /\ UNCHANGED hostSessions
       \/ /\ StoreSessionStep(t, Returned(Ok(Unit), cache[cellOf[t]]), FALSE)
          /\ hostSessions' = [hostSessions EXCEPT ![op[t].key] = JsU8(loc[t].bytes)]
    /\ UNCHANGED <<hostSenderKeys, hostIdentity, hostRegId, hostPreKeys, hostSignedPreKeys,
                   trustLog, cellOf, noise, nOps, lastRec,
                   firstIdentity>>

(***************************************************************************)
(* get_identity_key_pair and get_local_registration_id called on their own.*)
(***************************************************************************)
GetIdentityBegin(cell) ==
    IF IsSome(cell.cached_identity_key_pair)
    THEN Returned(Ok(Unwrap(cell.cached_identity_key_pair)), cell)
    ELSE Suspended("get_identity_key_pair", cell, NoLoc, "getIdentityKeyPair")

\* seen is the pair a call before this one returned, if any did.
GetIdentityStarted(t, s) ==
    /\ Advance(t, s, <<>>)
    /\ op' = [op EXCEPT ![t] = [NoOp EXCEPT !.kind = "get_identity_key_pair",
                                            !.hit = (s.pc = "idle"),
                                            !.seen = firstIdentity]]
    /\ IF s.pc = "idle" THEN NoteIdentity(t, s.res) ELSE UNCHANGED firstIdentity

GetIdentityStart(t) ==
    /\ CanStart(t)
    /\ GetIdentityStarted(t, GetIdentityBegin(cache[cellOf[t]]))
    /\ nOps' = nOps + 1
    /\ UNCHANGED <<hostVars, trustLog, cellOf, noise, lastRec, lastStore>>

\* The end of a getter: its result and the cache it leaves.
GetterReturned(got) == Returned(got.res, got.cell)

GetIdentityStep(t, got) ==
    /\ Advance(t, GetterReturned(got), calls[t])
    /\ NoteIdentity(t, got.res)
    /\ UNCHANGED op

GetIdentityResolve(t) ==
    /\ pc[t] = "get_identity_key_pair"
    /\ \/ /\ Advance(t, RejectedStep(cache[cellOf[t]]), calls[t])
          /\ op' = [op EXCEPT ![t].rejected = TRUE]
          /\ UNCHANGED firstIdentity
       \/ GetIdentityStep(t, IdentityAfterHost(cache[cellOf[t]], hostIdentity))
    /\ UNCHANGED <<hostVars, trustLog, cellOf, noise, nOps, lastRec, lastStore>>

GetRegistrationBegin(cell) ==
    IF IsSome(cell.cached_registration_id)
    THEN Returned(Ok(Unwrap(cell.cached_registration_id)), cell)
    ELSE Suspended("get_local_registration_id", cell, NoLoc, "getLocalRegistrationId")

GetRegistrationStarted(t, s) ==
    /\ Advance(t, s, <<>>)
    /\ op' = [op EXCEPT ![t] = [NoOp EXCEPT !.kind = "get_local_registration_id",
                                            !.hit = (s.pc = "idle")]]

GetRegistrationStart(t) ==
    /\ CanStart(t)
    /\ GetRegistrationStarted(t, GetRegistrationBegin(cache[cellOf[t]]))
    /\ nOps' = nOps + 1
    /\ UNCHANGED <<hostVars, trustLog, cellOf, noise, lastRec, lastStore, firstIdentity>>

GetRegistrationResolve(t) ==
    /\ pc[t] = "get_local_registration_id"
    /\ \/ /\ Advance(t, RejectedStep(cache[cellOf[t]]), calls[t])
          /\ op' = [op EXCEPT ![t].rejected = TRUE]
       \/ /\ Advance(t, GetterReturned(RegistrationAfterHost(cache[cellOf[t]], hostRegId)),
                     calls[t])
          /\ UNCHANGED op
    /\ UNCHANGED <<hostVars, trustLog, cellOf, noise, nOps, lastRec, lastStore, firstIdentity>>

(***************************************************************************)
(* load_sender_key and store_sender_key.                                   *)
(***************************************************************************)
LoadSenderKeyBegin(cell, k) ==
    IF IsSome(cell.cached_sender_keys[k])
    THEN Returned(Ok(Some(Unwrap(cell.cached_sender_keys[k]))), cell)
    ELSE Suspended("load_sender_key", cell, NoLoc, "loadSenderKey")

\* The end of load_sender_key on the record decoded.
LoadSenderKeyCache(cell, k, record) ==
    IF record.ok
    THEN Returned(Ok(Some(record.v)), [cell EXCEPT !.cached_sender_keys[k] = Some(record.v)])
    ELSE Returned(record, cell)

\* A load_sender_key that memoizes an absent sender key as an empty record.
LoadSenderKeyMemoized(cell, k, bytes) ==
    IF ~bytes.ok THEN Returned(bytes, cell)
    ELSE IF ~IsSome(bytes.v)
    THEN Returned(Ok(None), [cell EXCEPT !.cached_sender_keys[k] = Some(EmptySenderKeyRecord)])
    ELSE LoadSenderKeyCache(cell, k, SenderKeyFromBytes(Unwrap(bytes.v)))

\* load_sender_key on what js_promise_to_bytes! made of the host's value.
LoadSenderKeyBytes(cell, k, bytes) ==
    IF ~bytes.ok THEN Returned(bytes, cell)
    ELSE IF ~IsSome(bytes.v) THEN Returned(Ok(None), cell)
    ELSE LoadSenderKeyCache(cell, k, SenderKeyFromBytes(Unwrap(bytes.v)))

\* load_sender_key after the host's loadSenderKey promise resolved to value.
LoadSenderKeyAfterHost(cell, k, value) == LoadSenderKeyBytes(cell, k, JsToBytes(value))

LoadSenderKeyStarted(t, n, k, s) ==
    /\ Advance(t, s, <<>>)
    /\ op' = [op EXCEPT ![t] = [NoOp EXCEPT !.kind = "load_sender_key", !.key = k,
                                            !.arg = Some(n),
                                            !.hit = (s.pc = "idle"),
                                            !.seen_store = lastStore[k],
                                            !.left = s.cell.cached_sender_keys[k]]]

LoadSenderKeyKeyed(t, n, k) ==
    LoadSenderKeyStarted(t, n, k, LoadSenderKeyBegin(cache[cellOf[t]], k))

\* load_sender_key(sender_key_name) begins: the key string, the cache lookup
\* and, on a miss, the loadSenderKey host call.
LoadSenderKeyStart(t, n) ==
    /\ CanStart(t)
    /\ LoadSenderKeyKeyed(t, n, key_id(n))
    /\ nOps' = nOps + 1
    /\ UNCHANGED <<hostVars, trustLog, cellOf, noise, lastRec, lastStore, firstIdentity>>

\* The end of load_sender_key, with what it leaves behind.
LoadSenderKeyStep(t, s, got, rejected) ==
    /\ Advance(t, s, calls[t])
    /\ op' = [op EXCEPT ![t].got = got, ![t].rejected = rejected,
                        ![t].left = s.cell.cached_sender_keys[op[t].key]]

LoadSenderKeyResolve(t) ==
    /\ pc[t] = "load_sender_key"
    /\ \/ LoadSenderKeyStep(t, RejectedStep(cache[cellOf[t]]), None, TRUE)
       \/ LoadSenderKeyStep(t,
              LoadSenderKeyAfterHost(cache[cellOf[t]], op[t].key, hostSenderKeys[op[t].key]),
              Some(hostSenderKeys[op[t].key]), FALSE)
    /\ UNCHANGED <<hostVars, trustLog, cellOf, noise, nOps, lastRec, lastStore, firstIdentity>>

StoreSenderKeyBegin(cell, k, record) ==
    Suspended("store_sender_key", [cell EXCEPT !.cached_sender_keys[k] = Some(record)],
              [NoLoc EXCEPT !.bytes = SenderKeySerialize(record)], "storeSenderKey")

StoreSenderKeyStarted(t, n, k, record, s) ==
    /\ Advance(t, s, <<>>)
    /\ op' = [op EXCEPT ![t] = [NoOp EXCEPT !.kind = "store_sender_key", !.key = k,
                                            !.arg = Some(n),
                                            !.rec = Some(record),
                                            !.left = s.cell.cached_sender_keys[k]]]

StoreSenderKeyKeyed(t, n, k, record) ==
    /\ StoreSenderKeyStarted(t, n, k, record,
                             StoreSenderKeyBegin(cache[cellOf[t]], k, record))
    /\ lastStore' = [lastStore EXCEPT ![k] = Some([by |-> t, rec |-> record,
                                                   rejected |-> FALSE])]

\* store_sender_key(sender_key_name, record) begins: the key string, the
\* cache insert and the storeSenderKey host call.
StoreSenderKeyStart(t, n, record) ==
    /\ CanStart(t)
    /\ StoreSenderKeyKeyed(t, n, key_id(n), record)
    /\ nOps' = nOps + 1
    /\ UNCHANGED <<hostVars, trustLog, cellOf, noise, lastRec, firstIdentity>>

StoreSenderKeyResolve(t) ==
    /\ pc[t] = "store_sender_key"
    /\ \/ /\ Advance(t, RejectedStep(cache[cellOf[t]]), calls[t])
          /\ op' = [op EXCEPT ![t].rejected = TRUE]
          /\ UNCHANGED hostSenderKeys
       \/ /\ Advance(t, Returned(Ok(Unit), cache[cellOf[t]]), calls[t])
          /\ hostSenderKeys' = [hostSenderKeys EXCEPT ![op[t].key] = JsU8(loc[t].bytes)]
          /\ UNCHANGED op
    /\ UNCHANGED <<hostSessions, hostIdentity, hostRegId, hostPreKeys, hostSignedPreKeys,
                   trustLog, cellOf, noise, nOps, lastRec,
                   lastStore, firstIdentity>>

(***************************************************************************)
(* is_trusted_identity and save_identity.  The cache is keyed by the       *)
(* address name; the host is called with the name as well.                 *)
(***************************************************************************)
\* The cached key of the name is the key asked about.
IdentityCacheHit(cell, name, key) == cell.cached_identities[name] = Some(key)

IsTrustedBegin(cell, name, key) ==
    IF IdentityCacheHit(cell, name, key) THEN Returned(Ok(TRUE), cell)
    ELSE Suspended("is_trusted_identity", cell, NoLoc, "isTrustedIdentity")

\* An is_trusted_identity that caches the key whatever the host answered.
IsTrustedCacheAny(cell, name, key, trusted) ==
    Returned(Ok(trusted), [cell EXCEPT !.cached_identities[name] = Some(key)])

\* The end of is_trusted_identity: a trusted key is cached.
IsTrustedCache(cell, name, key, trusted) ==
    IF trusted
    THEN Returned(Ok(TRUE), [cell EXCEPT !.cached_identities[name] = Some(key)])
    ELSE Returned(Ok(FALSE), cell)

\* is_trusted_identity after the host's promise resolved to result.
IsTrustedAfterHost(cell, name, key, result) ==
    IsTrustedCache(cell, name, key, UnwrapOr(AsBool(result), FALSE))

\* The query of an operation on an identity: address and key.
IdentityQuery(name, device_id, key) == [name |-> name, device_id |-> device_id, key |-> key]

\* The host vouched for the query of an identity operation: it answered
\* isTrustedIdentity with true, or its saveIdentity promise resolved.
HostVouched(kind, got, rejected) ==
    /\ ~rejected
    /\ kind = "is_trusted_identity" => UnwrapOr(AsBool(Unwrap(got)), FALSE)

\* The query of task t is from now on one the host vouched for.
LogIdentity(t, got, rejected) ==
    trustLog' = IF HostVouched(op[t].kind, got, rejected)
                THEN trustLog \cup {Unwrap(op[t].arg)}
                ELSE trustLog

IsTrustedStarted(t, q, s) ==
    /\ Advance(t, s, <<>>)
    /\ op' = [op EXCEPT ![t] = [NoOp EXCEPT !.kind = "is_trusted_identity",
                                            !.key = q.name, !.arg = Some(q),
                                            !.hit = (s.pc = "idle"),
                                            !.log = trustLog]]

IsTrustedStart(t, name, device_id, key) ==
    /\ CanStart(t)
    /\ IsTrustedStarted(t, IdentityQuery(name, device_id, key),
                        IsTrustedBegin(cache[cellOf[t]], name, key))
    /\ nOps' = nOps + 1
    /\ UNCHANGED <<hostVars, trustLog, cellOf, noise, lastRec, lastStore, firstIdentity>>

\* A step of an identity operation after its host call settled.
IdentityStep(t, s, got, rejected) ==
    /\ Advance(t, s, calls[t])
    /\ op' = [op EXCEPT ![t].got = got, ![t].rejected = rejected]
    /\ LogIdentity(t, got, rejected)

\* The isTrustedIdentity promise settles.
IsTrustedResolve(t) ==
    /\ pc[t] = "is_trusted_identity"
    /\ \/ IdentityStep(t, RejectedStep(cache[cellOf[t]]), None, TRUE)
       \/ \E result \in TrustAnswers :
             IdentityStep(t, IsTrustedAfterHost(cache[cellOf[t]], Unwrap(op[t].arg).name,
                                                Unwrap(op[t].arg).key, result),
                          Some(result), FALSE)
    /\ UNCHANGED <<hostVars, cellOf, noise, nOps, lastRec, lastStore, firstIdentity>>

SaveIdentityBegin(cell, name, key) ==
    IF IdentityCacheHit(cell, name, key) THEN Returned(Ok(FALSE), cell)
    ELSE Suspended("save_identity", cell, NoLoc, "saveIdentity")

\* save_identity after the host's promise resolved to result: the key is
\* cached whatever the host answered.
SaveIdentityAfterHost(cell, name, key, result) ==
    Returned(Ok(UnwrapOr(AsBool(result), FALSE)),
             [cell EXCEPT !.cached_identities[name] = Some(key)])

SaveIdentityStarted(t, q, s) ==
    /\ Advance(t, s, <<>>)
    /\ op' = [op EXCEPT ![t] = [NoOp EXCEPT !.kind = "save_identity",
                                            !.key = q.name, !.arg = Some(q),
                                            !.hit = (s.pc = "idle"),
                                            !.log = trustLog]]

SaveIdentityStart(t, name, device_id, key) ==
    /\ CanStart(t)
    /\ SaveIdentityStarted(t, IdentityQuery(name, device_id, key),
                           SaveIdentityBegin(cache[cellOf[t]], name, key))
    /\ nOps' = nOps + 1
    /\ UNCHANGED <<hostVars, trustLog, cellOf, noise, lastRec, lastStore, firstIdentity>>

\* The saveIdentity promise settles.
SaveIdentityResolve(t) ==
    /\ pc[t] = "save_identity"
    /\ \/ IdentityStep(t, RejectedStep(cache[cellOf[t]]), None, TRUE)
       \/ \E result \in TrustAnswers :
             IdentityStep(t, SaveIdentityAfterHost(cache[cellOf[t]], Unwrap(op[t].arg).name,
                                                   Unwrap(op[t].arg).key, result),
                          Some(result), FALSE)
    /\ UNCHANGED <<hostVars, cellOf, noise, nOps, lastRec, lastStore, firstIdentity>>

(***************************************************************************)
(* get_pre_key, get_signed_pre_key and remove_pre_key.                     *)
(***************************************************************************)
\* An operation on a pre-key id starts with its host call.
PreKeyOpStarted(t, kind, id, s) ==
    /\ Advance(t, s, <<>>)
    /\ op' = [op EXCEPT ![t] = [NoOp EXCEPT !.kind = kind, !.arg = Some(id),
                                            !.hit = (s.pc = "idle")]]

\* A step of it after the host call settled.
PreKeyOpStep(t, s, got, rejected) ==
    /\ Advance(t, s, calls[t])
    /\ op' = [op EXCEPT ![t].got = got, ![t].rejected = rejected]

GetPreKeyBegin(cell, id) == Suspended("get_pre_key", cell, NoLoc, "loadPreKey")

GetPreKeyStart(t, id) ==
    /\ CanStart(t)
    /\ PreKeyOpStarted(t, "get_pre_key", id, GetPreKeyBegin(cache[cellOf[t]], id))
    /\ nOps' = nOps + 1
    /\ UNCHANGED <<hostVars, trustLog, cellOf, noise, lastRec, lastStore, firstIdentity>>

\* The loadPreKey promise settles.
GetPreKeyResolve(t) ==
    /\ pc[t] = "get_pre_key"
    /\ \/ PreKeyOpStep(t, RejectedStep(cache[cellOf[t]]), None, TRUE)
       \/ PreKeyOpStep(t, Returned(PreKeyFromHost(Unwrap(op[t].arg),
                                                  hostPreKeys[Unwrap(op[t].arg)]),
                                   cache[cellOf[t]]),
                       Some(hostPreKeys[Unwrap(op[t].arg)]), FALSE)
    /\ UNCHANGED <<hostVars, trustLog, cellOf, noise, nOps, lastRec, lastStore, firstIdentity>>

GetSignedPreKeyBegin(cell, id) ==
    Suspended("get_signed_pre_key", cell, NoLoc, "loadSignedPreKey")

GetSignedPreKeyStart(t, id) ==
    /\ CanStart(t)
    /\ PreKeyOpStarted(t, "get_signed_pre_key", id,
                       GetSignedPreKeyBegin(cache[cellOf[t]], id))
    /\ nOps' = nOps + 1
    /\ UNCHANGED <<hostVars, trustLog, cellOf, noise, lastRec, lastStore, firstIdentity>>

\* The loadSignedPreKey promise settles.
GetSignedPreKeyResolve(t) ==
    /\ pc[t] = "get_signed_pre_key"
    /\ \/ PreKeyOpStep(t, RejectedStep(cache[cellOf[t]]), None, TRUE)
       \/ PreKeyOpStep(t, Returned(SignedPreKeyFromHost(Unwrap(op[t].arg),
                                       hostSignedPreKeys[Unwrap(op[t].arg)]),
                                   cache[cellOf[t]]),
                       Some(hostSignedPreKeys[Unwrap(op[t].arg)]), FALSE)
    /\ UNCHANGED <<hostVars, trustLog, cellOf, noise, nOps, lastRec, lastStore, firstIdentity>>

\* remove_pre_key awaits the removePreKey promise.
RemovePreKeyBegin(cell, id) == Suspended("remove_pre_key", cell, NoLoc, "removePreKey")

RemovePreKeyStart(t, id) ==
    /\ CanStart(t)
    /\ PreKeyOpStarted(t, "remove_pre_key", id, RemovePreKeyBegin(cache[cellOf[t]], id))
    /\ nOps' = nOps + 1
    /\ UNCHANGED <<hostVars, trustLog, cellOf, noise, lastRec, lastStore, firstIdentity>>

\* The end of remove_pre_key: the outcome of the promise is its result.
RemovePreKeySettled(cell, rejected) ==
    IF rejected THEN RejectedStep(cell) ELSE Returned(Ok(Unit), cell)

\* The removePreKey promise settles: the host rejected, or dropped the key.
RemovePreKeyResolve(t) ==
    /\ pc[t] = "remove_pre_key"
    /\ \/ /\ PreKeyOpStep(t, RemovePreKeySettled(cache[cellOf[t]], TRUE), None, TRUE)
          /\ UNCHANGED hostPreKeys
       \/ /\ PreKeyOpStep(t, RemovePreKeySettled(cache[cellOf[t]], FALSE),
                          Some(JsUndefined), FALSE)
          /\ hostPreKeys' = [hostPreKeys EXCEPT ![Unwrap(op[t].arg)] = JsUndefined]
    /\ UNCHANGED <<hostSessions, hostSenderKeys, hostIdentity, hostRegId, hostSignedPreKeys,
                   trustLog, cellOf, noise, nOps, lastRec, lastStore, firstIdentity>>

(***************************************************************************)
(* SessionBuilder: initOutgoing and processPreKeyBundle.  The adapter      *)
(* calls of the protocol engine's process_prekey_bundle are inlined in the *)
(* order the engine makes them: is_trusted_identity, load_session,         *)
(* get_identity_key_pair, get_local_registration_id, save_identity,        *)
(* store_session.                                                          *)
(***************************************************************************)
\* The suspension points of the adapter calls as the builder reaches them:
\* from init_outgoing itself, and from inside process_prekey_bundle.
InInitOutgoing ==
    [load_session |-> "io_load_session", migrate_identity |-> "io_migrate_identity",
     migrate_registration |-> "io_migrate_registration"]

InProcessBundle ==
    [load_session |-> "pb_load_session", migrate_identity |-> "pb_migrate_identity",
     migrate_registration |-> "pb_migrate_registration",
     store_session |-> "pb_store_session"]

\* The adapter call the builder awaits is suspended at s.pc.
Awaiting(labels, s) == [s EXCEPT !.pc = labels[s.pc]]

\* SessionRecord::has_usable_sender_chain: a current session with a sender chain.
has_usable_sender_chain(record) ==
    /\ IsSome(record.current_session)
    /\ IsSome(Unwrap(record.current_session).sender_chain)

\* SessionRecord::promote_state: the current session, if any, is archived.
promote_state(record, session) ==
    [ty |-> "RecordStructure",
     current_session |-> Some(session),
     previous_sessions |->
         IF IsSome(record.current_session)
         THEN <<Unwrap(record.current_session)>> \o record.previous_sessions
         ELSE record.previous_sessions]

\* The session initialize_alice_session builds from the bundle, before the
\* registration ids are set.
AliceSession(bundle, our_identity) ==
    [session_version |-> Some(SessionVersion),
     local_identity_public |-> Some(our_identity.public_key),
     remote_identity_public |-> Some(bundle.identity_key),
     root_key |-> Some(<<6>>),
     previous_counter |-> Some(0),
     sender_chain |-> Some([sender_ratchet_key |-> Some(<<6>>),
                            sender_ratchet_key_private |-> Some(<<6>>),
                            chain_key |-> Some([index |-> Some(0), key |-> Some(<<6>>)]),
                            message_keys |-> <<>>]),
     receiver_chains |-> <<>>,
     pending_key_exchange |-> None,
     pending_pre_key |-> None,
     remote_registration_id |-> None,
     local_registration_id |-> None,
     needs_refresh |-> None,
     alice_base_key |-> Some(<<6>>)]

\* session_store.store_session(remote_address, &session_record), awaited.
BundleStore(cell, a, record) ==
    Awaiting(InProcessBundle, StoreSessionBegin(cell, a, record))

\* identity_store.save_identity(remote_address, their_identity_key), then
\* promote_state and the store.  The key was cached by the is_trusted_identity
\* that let the bundle through, so save_identity returns from its cache check.
BundleSave(cell, address, bundle, record, session) ==
    IF IdentityCacheHit(cell, address.name, bundle.identity_key)
    THEN BundleStore(cell, AddressString(address), promote_state(record, session))
    ELSE Suspended("pb_save_identity", cell,
                   [NoLoc EXCEPT !.record = Some(record), !.session = Some(session)],
                   "saveIdentity")

\* The session with both registration ids set.
BundleRegistered(cell, address, bundle, record, session, registration_id) ==
    BundleSave(cell, address, bundle, record,
               [session EXCEPT !.local_registration_id = Some(registration_id),
                               !.remote_registration_id = Some(bundle.registration_id)])

\* identity_store.get_local_registration_id().await?
BundleRegistration(cell, address, bundle, record, session) ==
    IF IsSome(cell.cached_registration_id)
    THEN BundleRegistered(cell, address, bundle, record, session,
                          Unwrap(cell.cached_registration_id))
    ELSE Suspended("pb_get_local_registration_id", cell,
                   [NoLoc EXCEPT !.record = Some(record), !.session = Some(session)],
                   "getLocalRegistrationId")

\* identity_store.get_identity_key_pair().await?
BundleIdentity(cell, address, bundle, record) ==
    IF IsSome(cell.cached_identity_key_pair)
    THEN BundleRegistration(cell, address, bundle, record,
                            AliceSession(bundle, Unwrap(cell.cached_identity_key_pair)))
    ELSE Suspended("pb_get_identity_key_pair", cell, [NoLoc EXCEPT !.record = Some(record)],
                   "getIdentityKeyPair")

\* session_store.load_session(remote_address).await?
\*     .unwrap_or_else(SessionRecord::new_fresh), s being the step of
\* load_session just taken.
BundleAfterLoad(address, bundle, s) ==
    IF s.pc # "idle" THEN Awaiting(InProcessBundle, s)
    ELSE IF ~s.res.ok THEN Returned(s.res, s.cell)
    ELSE BundleIdentity(s.cell, address, bundle,
                        IF IsSome(s.res.v) THEN Unwrap(s.res.v) ELSE EmptySessionRecord)

\* The trust decision made: an untrusted identity and a signature that does
\* not verify end the processing.
BundleAfterTrusted(cell, address, bundle, trusted) ==
    IF ~trusted.ok THEN Returned(trusted, cell)
    ELSE IF ~trusted.v THEN Returned(Err("UntrustedIdentity"), cell)
    ELSE IF ~bundle.signature_valid THEN Returned(Err("SignatureValidationFailed"), cell)
    ELSE BundleAfterLoad(address, bundle, LoadSessionBegin(cell, AddressString(address)))

\* identity_store.is_trusted_identity(remote_address, their_identity_key,
\* Direction::Sending).await?
BundleTrusted(cell, address, bundle) ==
    IF IdentityCacheHit(cell, address.name, bundle.identity_key)
    THEN BundleAfterTrusted(cell, address, bundle, Ok(TRUE))
    ELSE Suspended("pb_is_trusted_identity", cell, NoLoc, "isTrustedIdentity")

\* SessionBuilder::process_prekey_bundle up to its first await.
process_prekey_bundle(cell, address, bundle) ==
    IF ~bundle.well_formed THEN Returned(Err("JsError"), cell)
    ELSE BundleTrusted(cell, address, bundle)

\* An init_outgoing that skips the bundle for every session it finds.
InitOutgoingSkipAny(cell, address, bundle, existing_session) ==
    IF existing_session.ok /\ IsSome(existing_session.v) THEN Returned(Ok(Unit), cell)
    ELSE process_prekey_bundle(cell, address, bundle)

\* The `if let Ok(Some(..)) .. && let Ok(record) .. && has_usable_sender_chain`
\* of init_outgoing on the result of its load_session.
DecodesUsable(decoded) == decoded.ok /\ has_usable_sender_chain(decoded.v)

InitOutgoingDecide(cell, address, bundle, existing_session) ==
    IF /\ existing_session.ok /\ IsSome(existing_session.v)
       /\ DecodesUsable(SessionDeserialize(SessionSerialize(Unwrap(existing_session.v))))
    THEN Returned(Ok(Unit), cell)
    ELSE process_prekey_bundle(cell, address, bundle)

\* init_outgoing from the step s of its load_session on.
InitOutgoingAfterLoad(address, bundle, s) ==
    IF s.pc # "idle" THEN Awaiting(InInitOutgoing, s)
    ELSE InitOutgoingDecide(s.cell, address, bundle, s.res)

\* SessionBuilder::new: a builder with an adapter of its own for task u.
NewBuilder(u) ==
    /\ cellOf[u] = 0
    /\ cellOf' = [cellOf EXCEPT ![u] = u]
    /\ cache' = [cache EXCEPT ![u] = EmptyCache]
    /\ UNCHANGED <<hostVars, trustLog, noise, pc, op, res, calls, loc, nOps, lastRec, lastStore,
                   firstIdentity>>

\* What a builder operation leaves unchanged apart from the host's sessions.
builderFrame ==
    <<hostSenderKeys, hostIdentity, hostRegId, hostPreKeys, hostSignedPreKeys, trustLog,
      cellOf, noise, lastRec, lastStore, firstIdentity>>

\* initOutgoing starts; inner is the first step of its load_session.  first is
\* the result of that load_session once it returned, processed tells that
\* process_prekey_bundle was entered.
InitOutgoingStarted(t, bundle, inner, s) ==
    /\ Advance(t, s, <<>>)
    /\ op' = [op EXCEPT ![t] =
                 [NoOp EXCEPT !.kind = "init_outgoing", !.key = AddressString(RemoteAddress),
                              !.arg = Some(bundle), !.hit = (inner.pc = "idle"),
                              !.first = IF inner.pc = "idle" THEN Some(inner.res) ELSE None,
                              !.processed = (inner.pc = "idle"
                                               /\ ~(s.pc = "idle" /\ s.res = Ok(Unit)))]]

InitOutgoingBegin(t, bundle, inner) ==
    InitOutgoingStarted(t, bundle, inner, InitOutgoingAfterLoad(RemoteAddress, bundle, inner))

InitOutgoingStart(t, bundle) ==
    /\ CanStart(t)
    /\ InitOutgoingBegin(t, bundle,
                         LoadSessionBegin(cache[cellOf[t]], AddressString(RemoteAddress)))
    /\ nOps' = nOps + 1
    /\ UNCHANGED <<hostSessions, builderFrame>>

\* processPreKeyBundle called on its own.
ProcessBundleStart(t, bundle) ==
    /\ CanStart(t)
    /\ Advance(t, process_prekey_bundle(cache[cellOf[t]], RemoteAddress, bundle), <<>>)
    /\ op' = [op EXCEPT ![t] =
                 [NoOp EXCEPT !.kind = "process_prekey_bundle",
                              !.key = AddressString(RemoteAddress),
                              !.arg = Some(bundle), !.processed = TRUE]]
    /\ nOps' = nOps + 1
    /\ UNCHANGED <<hostSessions, builderFrame>>

\* A step of init_outgoing's load_session: inner is the step of load_session.
InitOutgoingLoadStep(t, inner, s, rejected) ==
    /\ Advance(t, s, calls[t])
    /\ op' = [op EXCEPT ![t].rejected = rejected,
                        ![t].first = IF inner.pc = "idle" THEN Some(inner.res) ELSE None,
                        ![t].processed = (inner.pc = "idle"
                                            /\ ~(s.pc = "idle" /\ s.res = Ok(Unit)))]
    /\ nOps' = nOps
    /\ UNCHANGED <<hostSessions, builderFrame>>

InitOutgoingLoad(t, inner, rejected) ==
    InitOutgoingLoadStep(t, inner,
                         InitOutgoingAfterLoad(RemoteAddress, Unwrap(op[t].arg), inner),
                         rejected)

\* The loadSession promise of init_outgoing's load_session settles.
InitOutgoingLoadResolve(t) ==
    /\ pc[t] = "io_load_session"
    /\ \/ InitOutgoingLoad(t, RejectedStep(cache[cellOf[t]]), TRUE)
       \/ InitOutgoingLoad(t, LoadSessionAfterHost(cache[cellOf[t]], op[t].key,
                                                   hostSessions[op[t].key]), FALSE)

\* The getIdentityKeyPair promise of the migration in that load settles.
InitOutgoingIdentityResolve(t) ==
    /\ pc[t] = "io_migrate_identity"
    /\ \/ InitOutgoingLoad(t, RejectedStep(cache[cellOf[t]]), TRUE)
       \/ InitOutgoingLoad(t, MigrateIdentityContinue(op[t].key, loc[t].session_data,
                                  IdentityAfterHost(cache[cellOf[t]], hostIdentity)), FALSE)

\* The getLocalRegistrationId promise of the migration in that load settles.
InitOutgoingRegistrationResolve(t) ==
    /\ pc[t] = "io_migrate_registration"
    /\ \/ InitOutgoingLoad(t, RejectedStep(cache[cellOf[t]]), TRUE)
       \/ InitOutgoingLoad(t, MigrateRegistrationContinue(op[t].key, Unwrap(loc[t].parsed),
                                  Unwrap(loc[t].identity),
                                  RegistrationAfterHost(cache[cellOf[t]], hostRegId)), FALSE)

\* A step s of process_prekey_bundle after a host call of it settled.
BundleStep(t, s, rejected) ==
    /\ Advance(t, s, calls[t])
    /\ op' = [op EXCEPT ![t].rejected = @ \/ rejected]
    /\ nOps' = nOps
    /\ UNCHANGED <<hostSessions, builderFrame>>

\* The same for the isTrustedIdentity call, whose answer is noted.
BundleTrustStep(t, s, result) ==
    /\ Advance(t, s, calls[t])
    /\ op' = [op EXCEPT ![t].got = Some(result)]
    /\ nOps' = nOps
    /\ UNCHANGED <<hostSessions, builderFrame>>

\* process_prekey_bundle once is_trusted_identity returned: s is its last step.
BundleAfterTrustedStep(address, bundle, s) ==
    BundleAfterTrusted(s.cell, address, bundle, s.res)

\* The isTrustedIdentity promise settles.
BundleTrustedResolve(t) ==
    /\ pc[t] = "pb_is_trusted_identity"
    /\ \/ BundleStep(t, RejectedStep(cache[cellOf[t]]), TRUE)
       \/ \E result \in TrustAnswers :
             BundleTrustStep(t,
                 BundleAfterTrustedStep(RemoteAddress, Unwrap(op[t].arg),
                     IsTrustedAfterHost(cache[cellOf[t]], RemoteAddress.name,
                                        Unwrap(op[t].arg).identity_key, result)),
                 result)

\* The loadSession promise of the bundle's load_session settles.
BundleLoadResolve(t) ==
    /\ pc[t] = "pb_load_session"
    /\ \/ BundleStep(t, RejectedStep(cache[cellOf[t]]), TRUE)
       \/ BundleStep(t, BundleAfterLoad(RemoteAddress, Unwrap(op[t].arg),
                            LoadSessionAfterHost(cache[cellOf[t]], op[t].key,
                                                 hostSessions[op[t].key])), FALSE)

\* The getIdentityKeyPair promise of the migration in that load settles.
BundleMigrateIdentityResolve(t) ==
    /\ pc[t] = "pb_migrate_identity"
    /\ \/ BundleStep(t, RejectedStep(cache[cellOf[t]]), TRUE)
       \/ BundleStep(t, BundleAfterLoad(RemoteAddress, Unwrap(op[t].arg),
                            MigrateIdentityContinue(op[t].key, loc[t].session_data,
                                IdentityAfterHost(cache[cellOf[t]], hostIdentity))), FALSE)

\* The getLocalRegistrationId promise of the migration in that load settles.
BundleMigrateRegistrationResolve(t) ==
    /\ pc[t] = "pb_migrate_registration"
    /\ \/ BundleStep(t, RejectedStep(cache[cellOf[t]]), TRUE)
       \/ BundleStep(t, BundleAfterLoad(RemoteAddress, Unwrap(op[t].arg),
                            MigrateRegistrationContinue(op[t].key, Unwrap(loc[t].parsed),
                                Unwrap(loc[t].identity),
                                RegistrationAfterHost(cache[cellOf[t]], hostRegId))), FALSE)

\* process_prekey_bundle once get_identity_key_pair returned got.
BundleAfterIdentity(address, bundle, record, got) ==
    IF ~got.res.ok THEN Returned(got.res, got.cell)
    ELSE BundleRegistration(got.cell, address, bundle, record, AliceSession(bundle, got.res.v))

\* The getIdentityKeyPair promise of process_prekey_bundle settles.
BundleIdentityResolve(t) ==
    /\ pc[t] = "pb_get_identity_key_pair"
    /\ \/ BundleStep(t, RejectedStep(cache[cellOf[t]]), TRUE)
       \/ BundleStep(t, BundleAfterIdentity(RemoteAddress, Unwrap(op[t].arg),
                            Unwrap(loc[t].record),
                            IdentityAfterHost(cache[cellOf[t]], hostIdentity)), FALSE)

\* process_prekey_bundle once get_local_registration_id returned got.
BundleAfterRegistration(address, bundle, record, session, got) ==
    IF ~got.res.ok THEN Returned(got.res, got.cell)
    ELSE BundleRegistered(got.cell, address, bundle, record, session, got.res.v)

\* The getLocalRegistrationId promise of process_prekey_bundle settles.
BundleRegistrationResolve(t) ==
    /\ pc[t] = "pb_get_local_registration_id"
    /\ \/ BundleStep(t, RejectedStep(cache[cellOf[t]]), TRUE)
       \/ BundleStep(t, BundleAfterRegistration(RemoteAddress, Unwrap(op[t].arg),
                            Unwrap(loc[t].record), Unwrap(loc[t].session),
                            RegistrationAfterHost(cache[cellOf[t]], hostRegId)), FALSE)

\* The storeSession promise settles: the host kept the bytes, or rejected.
BundleStoreStep(t, s, rejected, stored) ==
    /\ Advance(t, s, calls[t])
    /\ op' = [op EXCEPT ![t].rejected = @ \/ rejected]
    /\ hostSessions' = stored
    /\ nOps' = nOps
    /\ UNCHANGED builderFrame

BundleStoreResolve(t) ==
    /\ pc[t] = "pb_store_session"
    /\ \/ BundleStoreStep(t, StoreSessionRejected(cache[cellOf[t]], op[t].key), TRUE,
                          hostSessions)
       \/ BundleStoreStep(t, Returned(Ok(Unit), cache[cellOf[t]]), FALSE,
                          [hostSessions EXCEPT ![op[t].key] = JsU8(loc[t].bytes)])

(***************************************************************************)
(* Specifications.                                                         *)
(***************************************************************************)
\* A task begins an operation on its handle.
Start(t) ==
    \/ \E a \in SessionAddrs : LoadSessionStart(t, a)
    \/ \E a \in SessionAddrs, r \in StoreRecords : StoreSessionStart(t, a, r)
    \/ GetIdentityStart(t)
    \/ GetRegistrationStart(t)
    \/ LoadSenderKeyStart(t, GroupSenderKeyName)
    \/ StoreSenderKeyStart(t, GroupSenderKeyName, EngineSenderKeyRecord(1))

\* A host promise a task awaits settles and the task runs on.
Resume(t) ==
    \/ LoadSessionResolve(t)
    \/ MigrateIdentityResolve(t)
    \/ MigrateRegistrationResolve(t)
    \/ StoreSessionResolve(t)
    \/ GetIdentityResolve(t)
    \/ GetRegistrationResolve(t)
    \/ LoadSenderKeyResolve(t)
    \/ StoreSenderKeyResolve(t)

Next ==
    \/ \E t, u \in Tasks : Clone(t, u)
    \/ \E t \in Tasks : Start(t)
    \/ \E t \in Tasks : Resume(t)

\* Any interleaving of the tasks at their suspension points.
Spec == Init /\ [][Next]_vars

\* The use the binding layer makes of the handles: one operation at a time,
\* the next one begins when the previous one has returned.
NextSeq ==
    \/ \E t, u \in Tasks : Clone(t, u)
    \/ \E t \in Tasks : (\A u \in Tasks : pc[u] = "idle") /\ Start(t)
    \/ \E t \in Tasks : Resume(t)

SpecSeq == Init /\ [][NextSeq]_vars

\* load_session on hosts that hold a legacy session with chains of several
\* kinds, through a handle and its clones.
InitMigrate ==
    /\ InitTasks /\ InitNoPreKeys
    /\ \E v \in MigrateSessionValues, sc \in HostIdentityScenarios :
          /\ hostSessions = [a \in SessionAddrs |-> v]
          /\ hostIdentity = sc[1]
          /\ hostRegId = sc[2]
    /\ hostSenderKeys = [k \in SenderKeyIds |-> JsNull]

NextMigrate ==
    \/ \E t, u \in Tasks : Clone(t, u)
    \/ \E t \in Tasks, a \in SessionAddrs : LoadSessionStart(t, a)
    \/ \E t \in Tasks : LoadSessionResolve(t)
    \/ \E t \in Tasks : MigrateIdentityResolve(t)
    \/ \E t \in Tasks : MigrateRegistrationResolve(t)

SpecMigrate == InitMigrate /\ [][NextMigrate]_vars

\* ensure_curve_key_with_prefix on its own: keys of the lengths around 32 and
\* 33 bytes, with and without the type byte in front, normalized once and
\* then once more.
KeyBytes(len, first, fill) == [i \in 1..len |-> IF i = 1 THEN first ELSE fill]

NormalizeInputs ==
    {KeyBytes(len, first, fill) :
        len \in {0, 1, KeyLen - 1, KeyLen, PrefixedKeyLen, PrefixedKeyLen + 1},
        first \in {0, DjbType, DjbType + 1}, fill \in {DjbType, 9}}

Normalize(t, bytes) ==
    /\ pc[t] = "idle" /\ nOps < MaxOps
    /\ op' = [op EXCEPT ![t] = [NoOp EXCEPT !.kind = "normalize", !.arg = Some(bytes)]]
    /\ res' = [res EXCEPT ![t] = Ok(ensure_curve_key_with_prefix(bytes))]
    /\ nOps' = nOps + 1
    /\ UNCHANGED <<hostVars, trustLog, cellOf, noise, cache, pc, calls, loc, lastRec, lastStore,
                   firstIdentity>>

\* The result of the task's last normalization is normalized again.
NormalizeAgain(t) ==
    /\ pc[t] = "idle" /\ nOps < MaxOps /\ op[t].kind = "normalize"
    /\ op' = [op EXCEPT ![t].kind = "normalize_again", ![t].got = Some(res[t].v)]
    /\ res' = [res EXCEPT ![t] = Ok(ensure_curve_key_with_prefix(res[t].v))]
    /\ nOps' = nOps + 1
    /\ UNCHANGED <<hostVars, trustLog, cellOf, noise, cache, pc, calls, loc, lastRec, lastStore,
                   firstIdentity>>

InitNormalize == InitTasks /\ InitHostOfNothing /\ InitNoPreKeys

NextNormalize ==
    \/ \E t \in Tasks, bytes \in NormalizeInputs : Normalize(t, bytes)
    \/ \E t \in Tasks : NormalizeAgain(t)

SpecNormalize == InitNormalize /\ [][NextNormalize]_vars

(***************************************************************************)
(* ProtocolAddress (protocol_address.rs).  Strings are sequences of         *)
(* characters here, so that contains, split and parse are computed.        *)
(***************************************************************************)
\* Longest name and longest encoded string tried.
MaxNameLen == 3

MaxEncodedLen == 4

Dot == "."

DigitChars == <<"0", "1", "2", "3", "4", "5", "6", "7", "8", "9">>

\* The strings over alphabet of at most max characters.
StringsUpTo(alphabet, max) == UNION {[1..n -> alphabet] : n \in 0..max}

\* u32's Display: the decimal digits of n.
RECURSIVE Decimal(_)
Decimal(n) ==
    IF n < 10 THEN <<DigitChars[n + 1]>>
    ELSE Decimal(n \div 10) \o <<DigitChars[(n % 10) + 1]>>

IsDigit(c) == \E d \in 1..10 : DigitChars[d] = c

DigitValue(c) == (CHOOSE d \in 1..10 : DigitChars[d] = c) - 1

\* str::parse::<u32> on a string short enough not to overflow.
RECURSIVE ParseDigits(_, _)
ParseDigits(str, acc) ==
    IF str = <<>> THEN Ok(acc)
    ELSE IF ~IsDigit(Head(str)) THEN Err("Invalid address encoding")
    ELSE ParseDigits(Tail(str), acc * 10 + DigitValue(Head(str)))

ParseU32(str) ==
    IF str = <<>> THEN Err("Invalid address encoding") ELSE ParseDigits(str, 0)

\* str.contains('.')
Contains(str, c) == \E i \in 1..Len(str) : str[i] = c

\* str.split('.').collect(): the parts between the dots, at least one part.
RECURSIVE SplitFrom(_, _, _)
SplitFrom(str, part, parts) ==
    IF str = <<>> THEN Append(parts, part)
    ELSE IF Head(str) = Dot THEN SplitFrom(Tail(str), <<>>, Append(parts, part))
    ELSE SplitFrom(Tail(str), Append(part, Head(str)), parts)

Split(str) == SplitFrom(str, <<>>, <<>>)

\* `num as u32` of a JS number (whole numbers here): negatives saturate to 0.
F64AsU32(num) == IF num < 0 THEN 0 ELSE num

CoreProtocolAddressNew(name, device_id) == [name |-> name, device_id |-> device_id]

\* Display of the core address: "{name}.{device_id}".
ProtocolAddressToString(address) == address.name \o <<Dot>> \o Decimal(address.device_id)

\* A constructor that takes every name.
ProtocolAddressNewLenient(id, device_id) ==
    IF ~IsSome(id) THEN Err("id required for addr")
    ELSE IF ~IsSome(device_id) THEN Err("number required for deviceId")
    ELSE Ok(CoreProtocolAddressNew(Unwrap(id), F64AsU32(Unwrap(device_id))))

\* ProtocolAddress::new(id, device_id): id is None for a value that is no
\* string, device_id None for a value that is no number.
ProtocolAddressNew(id, device_id) ==
    IF ~IsSome(id) THEN Err("id required for addr")
    ELSE IF ~IsSome(device_id) THEN Err("number required for deviceId")
    ELSE IF Contains(Unwrap(id), Dot) THEN Err("encoded addr detected")
    ELSE Ok(CoreProtocolAddressNew(Unwrap(id), F64AsU32(Unwrap(device_id))))

FromParts(parts) ==
    IF Len(parts) < 2 THEN Err("Invalid address encoding")
    ELSE IF ~ParseU32(parts[2]).ok THEN ParseU32(parts[2])
    ELSE Ok(CoreProtocolAddressNew(parts[1], ParseU32(parts[2]).v))

\* ProtocolAddress::from_string(encoded): None for a value that is no string.
ProtocolAddressFromString(encoded) ==
    IF ~IsSome(encoded) THEN Err("Invalid address encoding")
    ELSE FromParts(Split(Unwrap(encoded)))

\* The values the constructors are called with.
NameInputs == {None} \cup {Some(n) : n \in StringsUpTo({"a", "1", Dot}, MaxNameLen)}

DeviceInputs == {None, Some(-1), Some(0), Some(1), Some(11)}

EncodedInputs == {None} \cup {Some(e) : e \in StringsUpTo({"a", "1", Dot}, MaxEncodedLen)}

\* What an address operation leaves alone.
addressFrame ==
    <<hostVars, trustLog, cellOf, noise, cache, pc, calls, loc, lastRec, lastStore, firstIdentity>>

AddressMade(t, kind, result) ==
    /\ pc[t] = "idle" /\ nOps < MaxOps
    /\ op' = [op EXCEPT ![t] = [NoOp EXCEPT !.kind = kind]]
    /\ res' = [res EXCEPT ![t] = result]
    /\ nOps' = nOps + 1
    /\ UNCHANGED addressFrame

\* new ProtocolAddress(id, deviceId)
AddressNew(t, id, device_id) == AddressMade(t, "new", ProtocolAddressNew(id, device_id))

\* ProtocolAddress.from(encoded)
AddressFrom(t, encoded) == AddressMade(t, "from", ProtocolAddressFromString(encoded))

\* ProtocolAddress.from(address.toString()) of the address task t holds; got
\* keeps that address.
AddressParseBack(t) ==
    /\ pc[t] = "idle" /\ nOps < MaxOps
    /\ op[t].kind \in {"new", "from"} /\ res[t].ok
    /\ op' = [op EXCEPT ![t] = [NoOp EXCEPT !.kind = "parse_back", !.got = Some(res[t].v),
                                            !.arg = Some(op[t].kind)]]
    /\ res' = [res EXCEPT ![t] =
                   ProtocolAddressFromString(Some(ProtocolAddressToString(res[t].v)))]
    /\ nOps' = nOps + 1
    /\ UNCHANGED addressFrame

InitAddress == InitTasks /\ InitHostOfNothing /\ InitNoPreKeys

NextAddress ==
    \/ \E t \in Tasks, id \in NameInputs, device_id \in DeviceInputs :
          AddressNew(t, id, device_id)
    \/ \E t \in Tasks, encoded \in EncodedInputs : AddressFrom(t, encoded)
    \/ \E t \in Tasks : AddressParseBack(t)

SpecAddress == InitAddress /\ [][NextAddress]_vars

\* The sender key store of the adapter on its own, one operation at a time
\* through a handle and its clones: two sender key names and two records,
\* over hosts that hold for every name the same value.
InitSenderKey ==
    /\ InitTasks /\ InitNoPreKeys
    /\ hostSessions = [a \in SessionAddrs |-> JsNull]
    /\ hostIdentity = HostIdentity(KeyLen)
    /\ hostRegId = JsNum(9)
    /\ \E v \in HostSenderKeyValues : hostSenderKeys = [k \in SenderKeyIds |-> v]

AllIdle == \A u \in Tasks : pc[u] = "idle"

NextSenderKey ==
    \/ \E t, u \in Tasks : Clone(t, u)
    \/ \E t \in Tasks, n \in SenderKeyNames : AllIdle /\ LoadSenderKeyStart(t, n)
    \/ \E t \in Tasks, n \in SenderKeyNames, r \in StoreSenderKeyRecords :
          AllIdle /\ StoreSenderKeyStart(t, n, r)
    \/ \E t \in Tasks : LoadSenderKeyResolve(t)
    \/ \E t \in Tasks : StoreSenderKeyResolve(t)

SpecSenderKey == InitSenderKey /\ [][NextSenderKey]_vars

\* The identity store of the adapter on its own: is_trusted_identity and
\* save_identity through a handle and its clones, the host empty otherwise.
InitTrust == InitTasks /\ InitHostOfNothing /\ InitNoPreKeys

NextTrust ==
    \/ \E t, u \in Tasks : Clone(t, u)
    \/ \E t \in Tasks, name \in AddressNames, device_id \in DeviceIds, key \in IdentityKeys :
          IsTrustedStart(t, name, device_id, key)
    \/ \E t \in Tasks, name \in AddressNames, device_id \in DeviceIds, key \in IdentityKeys :
          SaveIdentityStart(t, name, device_id, key)
    \/ \E t \in Tasks : IsTrustedResolve(t)
    \/ \E t \in Tasks : SaveIdentityResolve(t)

SpecTrust == InitTrust /\ [][NextTrust]_vars

\* The pre-key stores of the adapter on their own, over hosts that hold for
\* each id no pre-key, a well-formed one or a malformed one.
InitPreKey ==
    /\ InitTasks /\ InitHostOfNothing
    /\ hostPreKeys \in {f \in [PreKeyIds -> UNION {HostPreKeyValues(id) : id \in PreKeyIds}] :
                            \A id \in PreKeyIds : f[id] \in HostPreKeyValues(id)}
    /\ hostSignedPreKeys
          \in {f \in [PreKeyIds -> UNION {HostSignedPreKeyValues(id) : id \in PreKeyIds}] :
                   \A id \in PreKeyIds : f[id] \in HostSignedPreKeyValues(id)}

NextPreKey ==
    \/ \E t, u \in Tasks : Clone(t, u)
    \/ \E t \in Tasks, id \in PreKeyIds : GetPreKeyStart(t, id)
    \/ \E t \in Tasks, id \in PreKeyIds : GetSignedPreKeyStart(t, id)
    \/ \E t \in Tasks, id \in PreKeyIds : RemovePreKeyStart(t, id)
    \/ \E t \in Tasks : GetPreKeyResolve(t)
    \/ \E t \in Tasks : GetSignedPreKeyResolve(t)
    \/ \E t \in Tasks : RemovePreKeyResolve(t)

SpecPreKey == InitPreKey /\ [][NextPreKey]_vars

\* Session builders for one remote address, each with an adapter of its own,
\* over hosts that hold for the address no session, a session with or
\* without a sender chain, a legacy session or bytes that do not decode.
InitBuilder ==
    /\ InitTasks /\ InitNoPreKeys
    /\ \E v \in BuilderSessionValues, sc \in HostIdentityScenarios :
          /\ hostSessions = [a \in SessionAddrs |-> v]
          /\ hostIdentity = sc[1]
          /\ hostRegId = sc[2]
    /\ hostSenderKeys = [k \in SenderKeyIds |-> JsNull]

NextBuilder ==
    \/ \E u \in Tasks : NewBuilder(u)
    \/ \E t \in Tasks, bundle \in BundleInputs : InitOutgoingStart(t, bundle)
    \/ \E t \in Tasks, bundle \in BundleInputs : ProcessBundleStart(t, bundle)
    \/ \E t \in Tasks : InitOutgoingLoadResolve(t)
    \/ \E t \in Tasks : InitOutgoingIdentityResolve(t)
    \/ \E t \in Tasks : InitOutgoingRegistrationResolve(t)
    \/ \E t \in Tasks : BundleTrustedResolve(t)
    \/ \E t \in Tasks : BundleLoadResolve(t)
    \/ \E t \in Tasks : BundleMigrateIdentityResolve(t)
    \/ \E t \in Tasks : BundleMigrateRegistrationResolve(t)
    \/ \E t \in Tasks : BundleIdentityResolve(t)
    \/ \E t \in Tasks : BundleRegistrationResolve(t)
    \/ \E t \in Tasks : BundleStoreResolve(t)

SpecBuilder == InitBuilder /\ [][NextBuilder]_vars

(***************************************************************************)
(* decryptMessage (libsignal_api.rs) over an InMemorySignalStore           *)
(* (libsignal_store.rs): fetch from the host store, prepare the in-memory  *)
(* store, decrypt, write back.  Every call has an in-memory store of its   *)
(* own; the engine's message_decrypt is outside the repository and is      *)
(* modelled by its outcomes.                                               *)
(***************************************************************************)
\* The address jid_to_protocol_address makes of the jid, as a string.
DecryptAddress == AddressString(RemoteAddress)

\* A ciphertext: whether it parses as the message its type names, and the
\* pre-key ids a PreKeySignalMessage carries.
Ciphertext(parses, signed_pre_key_id, pre_key_id) ==
    [parses |-> parses, signed_pre_key_id |-> signed_pre_key_id, pre_key_id |-> pre_key_id]

\* (msg_type, ciphertext) as decryptMessage is called.
DecryptInputs ==
    {<<"text", Ciphertext(TRUE, 1, None)>>,
     <<"msg", Ciphertext(FALSE, 1, None)>>, <<"msg", Ciphertext(TRUE, 1, None)>>,
     <<"pkmsg", Ciphertext(FALSE, 1, None)>>, <<"pkmsg", Ciphertext(TRUE, 1, None)>>,
     <<"pkmsg", Ciphertext(TRUE, 1, Some(2))>>}

\* The identity key pair as a SignalStore returns it (JsPreKey, camelCase).
StoreIdentity(private_len) ==
    JsObj(<<Prop("publicKey", JsU8(Raw([i \in 1..KeyLen |-> 1]))),
            Prop("privateKey", JsU8(Raw([i \in 1..private_len |-> 2])))>>)

PreKeyRecord(id) ==
    [ty |-> "PreKeyRecordStructure", id |-> Some(id),
     public_key |-> Some([i \in 1..KeyLen |-> id]),
     private_key |-> Some([i \in 1..KeyLen |-> id + 2])]

SignedPreKeyRecord(id) ==
    [ty |-> "SignedPreKeyRecordStructure", id |-> Some(id),
     public_key |-> Some([i \in 1..KeyLen |-> id]),
     private_key |-> Some([i \in 1..KeyLen |-> id + 2]),
     signature |-> Some(<<id>>), timestamp |-> Some(0)]

\* The hosts decryptMessage runs over: (getIdentityKeyPair value,
\* getLocalRegistrationId value, loadSession value, whether loadSignedPreKey
\* and loadPreKey resolve to bytes that deserialize).
DecryptHostScenarios ==
    {<<StoreIdentity(KeyLen), JsNum(9), JsU8(SessionSerialize(EngineRecord(0))), TRUE, TRUE>>,
     <<StoreIdentity(KeyLen), JsNum(9), JsNull, TRUE, TRUE>>,
     <<StoreIdentity(KeyLen), JsNum(9), JsU8(Raw(<<>>)), TRUE, TRUE>>,
     <<StoreIdentity(KeyLen), JsNum(9), JsU8(Garbage), TRUE, TRUE>>,
     <<StoreIdentity(1), JsNum(9), JsNull, TRUE, TRUE>>,
     <<JsNull, JsNum(9), JsNull, TRUE, TRUE>>,
     <<StoreIdentity(KeyLen), JsUndefined, JsNull, TRUE, TRUE>>,
     <<StoreIdentity(KeyLen), JsNum(9), JsNull, FALSE, TRUE>>,
     <<StoreIdentity(KeyLen), JsNum(9), JsNull, TRUE, FALSE>>}

\* InMemorySignalStore::new
EmptyMemoryStore ==
    [identity_key_pair |-> None, registration_id |-> None,
     sessions |-> [a \in SessionAddrs |-> None],
     pre_keys |-> [id \in PreKeyIds |-> None],
     signed_pre_keys |-> [id \in PreKeyIds |-> None],
     removed_pre_key |-> None]

\* InMemorySignalStore::remove_pre_key
MemoryRemovePreKey(memory, id) ==
    [memory EXCEPT !.pre_keys[id] = None, !.removed_pre_key = Some(id)]

\* InMemorySignalStore::store_session
MemoryStoreSession(memory, address, record) ==
    [memory EXCEPT !.sessions[address] = Some(record)]

\* The locals decrypt_message keeps across its awaits.
DecryptLocals(msg_type, ciphertext) ==
    [msg_type |-> msg_type, message |-> ciphertext, memory |-> EmptyMemoryStore,
     identity_val |-> JsUndefined, reg_id_val |-> JsUndefined, plaintext |-> None]

\* The code from one await of decrypt_message to the next: where it stops,
\* its result if it returned, its locals, the host call it issued and
\* whether message_decrypt has returned Ok.
DecryptReturned(result, decrypted) ==
    [pc |-> "idle", res |-> result, loc |-> NoLoc, call |-> None, decrypted |-> decrypted]

DecryptSuspended(at, locals, call) ==
    [pc |-> at, res |-> Pending, loc |-> locals, call |-> Some(call),
     decrypted |-> IsSome(locals.plaintext)]

\* The outcomes of the engine's message_decrypt on a message that could be
\* decrypted: the MAC check fails, it decrypts, or (a PreKeySignalMessage
\* seen before) it decrypts under the session the store already holds.
EngineOutcomes == {"fails", "decrypts", "repeated"}

MessageDecryptResult(plaintext, memory) == [plaintext |-> plaintext, memory |-> memory]

\* message_decrypt for a SignalMessage: it needs the session.
DecryptSignal(address, memory, engine) ==
    IF ~IsSome(memory.sessions[address])
    THEN MessageDecryptResult(Err("SessionNotFound"), memory)
    ELSE IF engine # "decrypts" THEN MessageDecryptResult(Err("InvalidMessage"), memory)
    ELSE MessageDecryptResult(Ok(<<1>>), MemoryStoreSession(memory, address, EngineRecord(2)))

\* message_decrypt for a PreKeySignalMessage: a new session from the signed
\* and the one-time pre-key, stored after the decryption, and the one-time
\* pre-key removed; a message whose session exists uses no pre-key.
DecryptPreKeySignal(message, address, memory, engine) ==
    IF engine = "repeated" /\ IsSome(memory.sessions[address])
    THEN MessageDecryptResult(Ok(<<1>>), MemoryStoreSession(memory, address, EngineRecord(2)))
    ELSE IF ~IsSome(memory.signed_pre_keys[message.signed_pre_key_id])
    THEN MessageDecryptResult(Err("InvalidSignedPreKeyId"), memory)
    ELSE IF IsSome(message.pre_key_id) /\ ~IsSome(memory.pre_keys[Unwrap(message.pre_key_id)])
    THEN MessageDecryptResult(Err("InvalidPreKeyId"), memory)
    ELSE IF engine # "decrypts" THEN MessageDecryptResult(Err("InvalidMessage"), memory)
    ELSE MessageDecryptResult(
             Ok(<<1>>),
             IF IsSome(message.pre_key_id)
             THEN MemoryRemovePreKey(MemoryStoreSession(memory, address, EngineRecord(1)),
                                     Unwrap(message.pre_key_id))
             ELSE MemoryStoreSession(memory, address, EngineRecord(1)))

MessageDecrypt(msg_type, message, address, memory, engine) ==
    IF msg_type = "pkmsg" THEN DecryptPreKeySignal(message, address, memory, engine)
    ELSE DecryptSignal(address, memory, engine)

\* WRITE-BACK, second half: removePreKey when the engine removed a pre-key.
DecryptRemoveBack(l) ==
    IF IsSome(l.memory.removed_pre_key) THEN DecryptSuspended("decrypt_remove", l, "removePreKey")
    ELSE DecryptReturned(Ok(Unwrap(l.plaintext)), TRUE)

\* WRITE-BACK, first half: storeSession when the in-memory store holds a session.
DecryptWriteBack(l) ==
    IF IsSome(l.memory.sessions[DecryptAddress])
    THEN DecryptSuspended("decrypt_store", l, "storeSession")
    ELSE DecryptRemoveBack(l)

\* A decrypt_message that writes back whatever message_decrypt returned.
DecryptedAnyway(l, d) ==
    IF ~d.plaintext.ok /\ ~IsSome(d.memory.sessions[DecryptAddress])
    THEN DecryptReturned(Err("Failed to decrypt message"), FALSE)
    ELSE IF ~d.plaintext.ok
    THEN DecryptSuspended("decrypt_store", [l EXCEPT !.memory = d.memory], "storeSession")
    ELSE DecryptWriteBack([l EXCEPT !.memory = d.memory, !.plaintext = Some(d.plaintext.v)])

\* message_decrypt(..).await.map_err(..)?: an error ends the call.
Decrypted(l, d) ==
    IF ~d.plaintext.ok THEN DecryptReturned(Err("Failed to decrypt message"), FALSE)
    ELSE DecryptWriteBack([l EXCEPT !.memory = d.memory, !.plaintext = Some(d.plaintext.v)])

\* PROCESS
DecryptProcess(l, engine) ==
    Decrypted(l, MessageDecrypt(l.msg_type, l.message, DecryptAddress, l.memory, engine))

\* The start of decrypt_message: the ciphertext is parsed as its type says.
DecryptBegin(msg_type, ciphertext) ==
    IF msg_type \notin {"pkmsg", "msg"}
    THEN DecryptReturned(Err("Invalid message type"), FALSE)
    ELSE IF ~ciphertext.parses THEN DecryptReturned(Err("Failed to parse message"), FALSE)
    ELSE DecryptSuspended("decrypt_identity", DecryptLocals(msg_type, ciphertext),
                          "getIdentityKeyPair")

\* Uint8Array::from(val).to_vec() of a value that is no Uint8Array: the
\* JavaScript exception ends the call, which makes no further host call.
NotBytes == Err("TypeError")

\* serde_wasm_bindgen::from_value::<JsPreKey> and PrivateKey::deserialize.
IsBytesProp(v, key) == ReflectHas(v, key) /\ ReflectGet(v, key).v.t = "u8"

IdentityFromStore(v) ==
    IF ~(IsBytesProp(v, "publicKey") /\ IsBytesProp(v, "privateKey"))
    THEN Err("Invalid identity key pair")
    ELSE IF Len(ReflectGet(v, "privateKey").v.b.raw) # KeyLen
    THEN Err("Failed to decode private key")
    ELSE Ok([private_key |-> ReflectGet(v, "privateKey").v.b.raw])

\* The session of the host as the in-memory store takes it: none for null,
\* undefined or zero bytes.
SessionFromStore(v) ==
    IF v.t \in {"undefined", "null"} THEN Ok(None)
    ELSE IF v.t # "u8" THEN NotBytes
    ELSE IF v.b = Raw(<<>>) THEN Ok(None)
    ELSE IF ~SessionDeserialize(v.b).ok THEN Err("Failed to deserialize session")
    ELSE Ok(Some(SessionDeserialize(v.b).v))

\* After the three fetches: the in-memory store is filled, and a
\* PreKeySignalMessage goes on to fetch its signed pre-key.
DecryptPrepared(l, identity, reg_id, session, engine) ==
    IF ~identity.ok THEN DecryptReturned(identity, FALSE)
    ELSE IF ~IsSome(reg_id) THEN DecryptReturned(Err("Invalid registration ID"), FALSE)
    ELSE IF ~session.ok THEN DecryptReturned(session, FALSE)
    ELSE IF l.msg_type = "pkmsg"
    THEN DecryptSuspended("decrypt_signed_pre_key",
                          [l EXCEPT !.memory.identity_key_pair = Some(identity.v),
                                    !.memory.registration_id = Some(AsU32(Unwrap(reg_id))),
                                    !.memory.sessions[DecryptAddress] = session.v],
                          "loadSignedPreKey")
    ELSE DecryptProcess([l EXCEPT !.memory.identity_key_pair = Some(identity.v),
                                  !.memory.registration_id = Some(AsU32(Unwrap(reg_id))),
                                  !.memory.sessions[DecryptAddress] = session.v],
                        engine)

DecryptAfterIdentity(l, rejected, identity_val) ==
    IF rejected THEN DecryptReturned(Err("Failed to fetch identity key pair"), FALSE)
    ELSE DecryptSuspended("decrypt_registration", [l EXCEPT !.identity_val = identity_val],
                          "getLocalRegistrationId")

DecryptAfterRegistration(l, rejected, reg_id_val) ==
    IF rejected THEN DecryptReturned(Err("Failed to fetch registration ID"), FALSE)
    ELSE DecryptSuspended("decrypt_session", [l EXCEPT !.reg_id_val = reg_id_val],
                          "loadSession")

DecryptAfterSession(l, rejected, session_val, engine) ==
    IF rejected THEN DecryptReturned(Err("Failed to load session"), FALSE)
    ELSE DecryptPrepared(l, IdentityFromStore(l.identity_val), AsF64(l.reg_id_val),
                         SessionFromStore(session_val), engine)

\* The signed pre-key arrived: a message with a one-time pre-key id fetches
\* that one next.
DecryptSignedLoaded(l, id, record, engine) ==
    IF ~record.ok THEN DecryptReturned(Err("Failed to deserialize signed pre-key"), FALSE)
    ELSE IF IsSome(l.message.pre_key_id)
    THEN DecryptSuspended("decrypt_pre_key",
                          [l EXCEPT !.memory.signed_pre_keys[id] = Some(record.v)],
                          "loadPreKey")
    ELSE DecryptProcess([l EXCEPT !.memory.signed_pre_keys[id] = Some(record.v)], engine)

DecryptAfterSignedPreKey(l, rejected, spk_val, engine) ==
    IF rejected THEN DecryptReturned(Err("Failed to load signed pre-key"), FALSE)
    ELSE IF spk_val.t # "u8" THEN DecryptReturned(NotBytes, FALSE)
    ELSE DecryptSignedLoaded(l, l.message.signed_pre_key_id,
                             ProtoDecode(spk_val.b, "SignedPreKeyRecordStructure"), engine)

DecryptPreKeyLoaded(l, id, record, engine) ==
    IF ~record.ok THEN DecryptReturned(Err("Failed to deserialize pre-key"), FALSE)
    ELSE DecryptProcess([l EXCEPT !.memory.pre_keys[id] = Some(record.v)], engine)

DecryptAfterPreKey(l, rejected, pk_val, engine) ==
    IF rejected THEN DecryptReturned(Err("Failed to load pre-key"), FALSE)
    ELSE IF pk_val.t # "u8" THEN DecryptReturned(NotBytes, FALSE)
    ELSE DecryptPreKeyLoaded(l, Unwrap(l.message.pre_key_id),
                             ProtoDecode(pk_val.b, "PreKeyRecordStructure"), engine)

DecryptAfterStore(l, rejected) ==
    IF rejected THEN DecryptReturned(Err("Failed to store session"), TRUE)
    ELSE DecryptRemoveBack(l)

DecryptAfterRemove(l, rejected) ==
    IF rejected THEN DecryptReturned(Err("Failed to remove pre-key"), TRUE)
    ELSE DecryptReturned(Ok(Unwrap(l.plaintext)), TRUE)

\* What a step of decrypt_message leaves alone: it has no adapter.
decryptFrame ==
    <<hostSenderKeys, hostIdentity, hostRegId, hostSignedPreKeys, trustLog, cellOf, noise, cache,
      lastRec, lastStore, firstIdentity>>

\* Task t takes the step s of its decryptMessage call.
DecryptAdvance(t, s) ==
    /\ pc' = [pc EXCEPT ![t] = s.pc]
    /\ res' = [res EXCEPT ![t] = s.res]
    /\ loc' = [loc EXCEPT ![t] = s.loc]
    /\ calls' = [calls EXCEPT ![t] = IF IsSome(s.call) THEN Append(@, Unwrap(s.call)) ELSE @]
    /\ op' = [op EXCEPT ![t].processed = s.decrypted]
    /\ UNCHANGED decryptFrame

\* decryptMessage(store, jid, msg_type, ciphertext)
DecryptStarted(t, input, s) ==
    /\ pc' = [pc EXCEPT ![t] = s.pc]
    /\ res' = [res EXCEPT ![t] = s.res]
    /\ loc' = [loc EXCEPT ![t] = s.loc]
    /\ calls' = [calls EXCEPT ![t] = IF IsSome(s.call) THEN <<Unwrap(s.call)>> ELSE <<>>]
    /\ op' = [op EXCEPT ![t] = [NoOp EXCEPT !.kind = "decrypt", !.key = DecryptAddress,
                                            !.arg = Some(input)]]
    /\ nOps' = nOps + 1
    /\ UNCHANGED <<decryptFrame, hostSessions, hostPreKeys>>

DecryptStart(t, input) ==
    /\ pc[t] = "idle" /\ nOps < MaxOps
    /\ DecryptStarted(t, input, DecryptBegin(input[1], input[2]))

\* The getIdentityKeyPair promise settles.
DecryptIdentityResolve(t, rejected) ==
    /\ pc[t] = "decrypt_identity"
    /\ DecryptAdvance(t, DecryptAfterIdentity(loc[t], rejected, hostIdentity))
    /\ UNCHANGED <<nOps, hostSessions, hostPreKeys>>

\* The getLocalRegistrationId promise settles.
DecryptRegistrationResolve(t, rejected) ==
    /\ pc[t] = "decrypt_registration"
    /\ DecryptAdvance(t, DecryptAfterRegistration(loc[t], rejected, hostRegId))
    /\ UNCHANGED <<nOps, hostSessions, hostPreKeys>>

\* The loadSession promise settles; a SignalMessage is decrypted at once.
DecryptSessionResolve(t, rejected, engine) ==
    /\ pc[t] = "decrypt_session"
    /\ DecryptAdvance(t, DecryptAfterSession(loc[t], rejected, hostSessions[DecryptAddress],
                                             engine))
    /\ UNCHANGED <<nOps, hostSessions, hostPreKeys>>

\* The loadSignedPreKey promise settles.
DecryptSignedPreKeyResolve(t, rejected, engine) ==
    /\ pc[t] = "decrypt_signed_pre_key"
    /\ DecryptAdvance(t, DecryptAfterSignedPreKey(
                             loc[t], rejected,
                             hostSignedPreKeys[loc[t].message.signed_pre_key_id], engine))
    /\ UNCHANGED <<nOps, hostSessions, hostPreKeys>>

\* The loadPreKey promise settles.
DecryptPreKeyResolve(t, rejected, engine) ==
    /\ pc[t] = "decrypt_pre_key"
    /\ DecryptAdvance(t, DecryptAfterPreKey(
                             loc[t], rejected,
                             hostPreKeys[Unwrap(loc[t].message.pre_key_id)], engine))
    /\ UNCHANGED <<nOps, hostSessions, hostPreKeys>>

\* The storeSession promise settles: the host rejected, or took the bytes.
DecryptStoreResolve(t, rejected) ==
    /\ pc[t] = "decrypt_store"
    /\ DecryptAdvance(t, DecryptAfterStore(loc[t], rejected))
    /\ hostSessions' =
          IF rejected THEN hostSessions
          ELSE [hostSessions EXCEPT ![DecryptAddress] =
                    JsU8(SessionSerialize(Unwrap(loc[t].memory.sessions[DecryptAddress])))]
    /\ UNCHANGED <<nOps, hostPreKeys>>

\* The removePreKey promise settles: the host rejected, or dropped the key.
DecryptRemoveResolve(t, rejected) ==
    /\ pc[t] = "decrypt_remove"
    /\ DecryptAdvance(t, DecryptAfterRemove(loc[t], rejected))
    /\ hostPreKeys' =
          IF rejected THEN hostPreKeys
          ELSE [hostPreKeys EXCEPT ![Unwrap(loc[t].memory.removed_pre_key)] = JsUndefined]
    /\ UNCHANGED <<nOps, hostSessions>>

\* decryptMessage calls, each with a store of its own, over the hosts above.
InitDecrypt ==
    /\ InitTasks
    /\ hostSenderKeys = [k \in SenderKeyIds |-> JsNull]
    /\ \E h \in DecryptHostScenarios :
          /\ hostIdentity = h[1]
          /\ hostRegId = h[2]
          /\ hostSessions = [a \in SessionAddrs |-> h[3]]
          /\ hostSignedPreKeys =
                [id \in PreKeyIds |->
                    JsU8(IF h[4] THEN ProtoEncode(SignedPreKeyRecord(id)) ELSE Garbage)]
          /\ hostPreKeys =
                [id \in PreKeyIds |->
                    JsU8(IF h[5] THEN ProtoEncode(PreKeyRecord(id)) ELSE Garbage)]

NextDecrypt ==
    \/ \E t \in Tasks, input \in DecryptInputs : DecryptStart(t, input)
    \/ \E t \in Tasks, rejected \in BOOLEAN : DecryptIdentityResolve(t, rejected)
    \/ \E t \in Tasks, rejected \in BOOLEAN : DecryptRegistrationResolve(t, rejected)
    \/ \E t \in Tasks, rejected \in BOOLEAN, engine \in EngineOutcomes :
          DecryptSessionResolve(t, rejected, engine)
    \/ \E t \in Tasks, rejected \in BOOLEAN, engine \in EngineOutcomes :
          DecryptSignedPreKeyResolve(t, rejected, engine)
    \/ \E t \in Tasks, rejected \in BOOLEAN, engine \in EngineOutcomes :
          DecryptPreKeyResolve(t, rejected, engine)
    \/ \E t \in Tasks, rejected \in BOOLEAN : DecryptStoreResolve(t, rejected)
    \/ \E t \in Tasks, rejected \in BOOLEAN : DecryptRemoveResolve(t, rejected)

SpecDecrypt == InitDecrypt /\ [][NextDecrypt]_vars

(***************************************************************************)
(* NoiseSession (noise_session.rs).  Its methods take &mut self and run to *)
(* their end, so the session is one object changed by one call at a time.  *)
(* The handshake and the ciphers are wacore_noise's: a handshake is        *)
(* modelled by what was done with it, a cipher by its role, and every      *)
(* fallible operation of theirs by its two outcomes.  authenticate and     *)
(* the getters change nothing that is modelled here.  Next to the session  *)
(* the state keeps the (cipher, counter) pairs the ciphers were used with, *)
(* the last call with its result and the number of calls.                  *)
(***************************************************************************)
NewHandshake == [keyed |-> FALSE, counter |-> 0]

\* NoiseSession::new, when NoiseHandshake::new succeeded.  frames is the
\* number of complete frames the frame decoder holds.
NoiseSessionNew ==
    [handshake |-> Some(NewHandshake), enc_cipher |-> None, dec_cipher |-> None,
     read_counter |-> 0, write_counter |-> 0, is_finished |-> FALSE,
     intro_header |-> Some("header"), frames |-> 0]

NoiseNew ==
    [session |-> NoiseSessionNew, wrote |-> <<>>, read |-> <<>>,
     last |-> [call |-> "new", res |-> Ok(Unit)], ncalls |-> 0]

\* What a method leaves: the state and its result.
NoiseResult(n, result) == [n |-> n, res |-> result]

CipherUse(cipher, counter) == [cipher |-> cipher, counter |-> counter]

\* A counter that advances only when the cipher operation succeeds.
CounterKeptOnFailure(counter, ok) == IF ok THEN counter + 1 ELSE counter

\* `let counter = self.write_counter; self.write_counter += 1;` and the same
\* for read_counter, before the cipher is called.
NextCounter(counter, ok) == counter + 1

\* NoiseHandshake::encrypt / decrypt: the handshake's own counter advances.
HandshakeCrypt(n, ok, failure) ==
    IF ~IsSome(n.session.handshake) THEN NoiseResult(n, Err("Handshake not initialized"))
    ELSE IF ~ok THEN NoiseResult(n, Err(failure))
    ELSE NoiseResult([n EXCEPT !.session.handshake = Some([Unwrap(@) EXCEPT !.counter = @ + 1])],
                     Ok("bytes"))

encrypt_vec(n, ok) ==
    IF ~n.session.is_finished THEN HandshakeCrypt(n, ok, "Encryption failed")
    ELSE IF ~IsSome(n.session.enc_cipher)
    THEN NoiseResult(n, Err("Encryption cipher not initialized"))
    ELSE NoiseResult([n EXCEPT !.session.write_counter = NextCounter(@, ok),
                               !.wrote = Append(@, CipherUse(Unwrap(n.session.enc_cipher),
                                                             n.session.write_counter))],
                     IF ok THEN Ok("bytes") ELSE Err("Encryption failed"))

decrypt_vec(n, ok) ==
    IF ~n.session.is_finished THEN HandshakeCrypt(n, ok, "Decryption failed")
    ELSE IF ~IsSome(n.session.dec_cipher)
    THEN NoiseResult(n, Err("Decryption cipher not initialized"))
    ELSE NoiseResult([n EXCEPT !.session.read_counter = NextCounter(@, ok),
                               !.read = Append(@, CipherUse(Unwrap(n.session.dec_cipher),
                                                            n.session.read_counter))],
                     IF ok THEN Ok("bytes") ELSE Err("Decryption failed"))

mix_into_key(n, ok) ==
    IF ~IsSome(n.session.handshake) THEN NoiseResult(n, Err("NoiseHandshake not initialized"))
    ELSE IF ~ok THEN NoiseResult(n, Err("mixIntoKey failed"))
    ELSE NoiseResult([n EXCEPT !.session.handshake = Some([keyed |-> TRUE, counter |-> 0])],
                     Ok(Unit))

\* finish_init once the handshake was taken out of the session.
FinishTaken(n, ok) ==
    IF ~ok THEN NoiseResult(n, Err("finishInit failed"))
    ELSE NoiseResult([n EXCEPT !.session.enc_cipher = Some("write"),
                               !.session.dec_cipher = Some("read"),
                               !.session.read_counter = 0,
                               !.session.write_counter = 0,
                               !.session.is_finished = TRUE],
                     Ok(Unit))

\* A finish_init that takes the handshake only when it finished: with it a
\* failing finishInit leaves the session in handshake mode.
FinishKeepingHandshake(n, ok) ==
    IF ~IsSome(n.session.handshake) THEN NoiseResult(n, Err("NoiseHandshake not initialized"))
    ELSE IF ~ok THEN NoiseResult(n, Err("finishInit failed"))
    ELSE FinishTaken([n EXCEPT !.session.handshake = None], ok)

\* finish_init: self.handshake.take(), then handshake.finish().
finish_init(n, ok) ==
    IF ~IsSome(n.session.handshake) THEN NoiseResult(n, Err("NoiseHandshake not initialized"))
    ELSE FinishTaken([n EXCEPT !.session.handshake = None], ok)

\* encode_frame_raw_inner: the intro header is taken first.
encode_frame_raw_inner(n, ok) ==
    IF ~n.session.is_finished
    THEN NoiseResult([n EXCEPT !.session.intro_header = None], Ok("frame"))
    ELSE IF ~encrypt_vec(n, ok).res.ok
    THEN NoiseResult([encrypt_vec(n, ok).n EXCEPT !.session.intro_header = None],
                     encrypt_vec(n, ok).res)
    ELSE NoiseResult([encrypt_vec(n, ok).n EXCEPT !.session.intro_header = None],
                     Ok("frame"))

\* encode_frame: marshal, encrypt when finished, then take the intro header.
encode_frame(n, marshals, ok) ==
    IF ~marshals THEN NoiseResult(n, Err("Marshal error"))
    ELSE IF ~n.session.is_finished
    THEN NoiseResult([n EXCEPT !.session.intro_header = None], Ok("frame"))
    ELSE IF ~encrypt_vec(n, ok).res.ok THEN encrypt_vec(n, ok)
    ELSE NoiseResult([encrypt_vec(n, ok).n EXCEPT !.session.intro_header = None],
                     Ok("frame"))

RECURSIVE DecodeLoop(_, _, _)
\* The loop of decode_frame: the i-th frame taken from the decoder; the
\* frame numbered fail_at (0: none) fails to decrypt and ends the call.
DecodeLoop(n, fail_at, i) ==
    IF n.session.frames = 0 THEN NoiseResult(n, Ok("frames"))
    ELSE IF ~n.session.is_finished
    THEN DecodeLoop([n EXCEPT !.session.frames = @ - 1], fail_at, i + 1)
    ELSE IF i = fail_at
    THEN decrypt_vec([n EXCEPT !.session.frames = @ - 1], FALSE)
    ELSE DecodeLoop(decrypt_vec([n EXCEPT !.session.frames = @ - 1], TRUE).n, fail_at, i + 1)

\* decode_frame(new_data): new_data completes fed frames.
decode_frame(n, fed, fail_at) ==
    DecodeLoop([n EXCEPT !.session.frames = @ + fed], fail_at, 1)

clear_buffer(n) == NoiseResult([n EXCEPT !.session.frames = 0], Ok(Unit))

\* process_handshake_init: mix_shared_secret, decrypt, mix_shared_secret,
\* decrypt on the handshake; a failure leaves it keyed by what was mixed.
process_handshake_init(n, ok) ==
    IF ~IsSome(n.session.handshake) THEN NoiseResult(n, Err("NoiseHandshake not initialized"))
    ELSE IF ~ok
    THEN NoiseResult([n EXCEPT !.session.handshake = Some([keyed |-> TRUE, counter |-> 0])],
                     Err("decrypt static failed"))
    ELSE NoiseResult([n EXCEPT !.session.handshake = Some([keyed |-> TRUE, counter |-> 1])],
                     Ok("bytes"))

\* process_handshake_finish: encrypt, then mix_shared_secret.
process_handshake_finish(n, ok) ==
    IF ~IsSome(n.session.handshake) THEN NoiseResult(n, Err("NoiseHandshake not initialized"))
    ELSE IF ~ok THEN NoiseResult(n, Err("encrypt failed"))
    ELSE NoiseResult([n EXCEPT !.session.handshake = Some([keyed |-> TRUE, counter |-> 0])],
                     Ok("bytes"))

\* The calls made on one NoiseSession.
MaxCalls == 5

MaxFed == 2

\* What a method of the NoiseSession leaves alone.
noiseFrame ==
    <<hostVars, trustLog, cellOf, cache, pc, op, res, calls, loc, nOps, lastRec, lastStore,
      firstIdentity>>

\* The method call returns r.
NoiseCalled(call, r) ==
    /\ noise.ncalls < MaxCalls
    /\ noise' = [r.n EXCEPT !.last = [call |-> call, res |-> r.res], !.ncalls = @ + 1]
    /\ UNCHANGED noiseFrame

\* encrypt / encryptPacked
NoiseEncrypt(ok) == NoiseCalled("encrypt", encrypt_vec(noise, ok))

\* decrypt / decryptPacked
NoiseDecrypt(ok) == NoiseCalled("decrypt", decrypt_vec(noise, ok))

NoiseMixIntoKey(ok) == NoiseCalled("mixIntoKey", mix_into_key(noise, ok))

NoiseFinishInit(ok) == NoiseCalled("finishInit", finish_init(noise, ok))

\* encodeFrameRaw and its packed variants
NoiseEncodeFrameRaw(ok) == NoiseCalled("encodeFrameRaw", encode_frame_raw_inner(noise, ok))

NoiseEncodeFrame(marshals, ok) ==
    NoiseCalled("encodeFrame", encode_frame(noise, marshals, ok))

\* decodeFrame / decodeFramePacked
NoiseDecodeFrame(fed, fail_at) ==
    NoiseCalled("decodeFrame", decode_frame(noise, fed, fail_at))

NoiseClearBuffer == NoiseCalled("clearBuffer", clear_buffer(noise))

NoiseProcessHandshakeInit(ok) ==
    NoiseCalled("processHandshakeInit", process_handshake_init(noise, ok))

NoiseProcessHandshakeFinish(ok) ==
    NoiseCalled("processHandshakeFinish", process_handshake_finish(noise, ok))

\* A NoiseSession just constructed; no adapter is in use.
InitNoise ==
    /\ InitHostOfNothing /\ InitNoPreKeys
    /\ cellOf = [t \in Tasks |-> 0]
    /\ cache = [c \in Cells |-> EmptyCache]
    /\ pc = [t \in Tasks |-> "idle"]
    /\ op = [t \in Tasks |-> NoOp]
    /\ res = [t \in Tasks |-> Pending]
    /\ calls = [t \in Tasks |-> <<>>]
    /\ loc = [t \in Tasks |-> NoLoc]
    /\ nOps = 0
    /\ lastRec = [a \in SessionAddrs |-> None]
    /\ lastStore = [a \in SessionAddrs \cup SenderKeyIds |-> None]
    /\ firstIdentity = None
    /\ trustLog = {}
    /\ noise = NoiseNew

NextNoise ==
    \/ \E ok \in BOOLEAN : NoiseEncrypt(ok)
    \/ \E ok \in BOOLEAN : NoiseDecrypt(ok)
    \/ \E ok \in BOOLEAN : NoiseMixIntoKey(ok)
    \/ \E ok \in BOOLEAN : NoiseFinishInit(ok)
    \/ \E ok \in BOOLEAN : NoiseEncodeFrameRaw(ok)
    \/ \E marshals, ok \in BOOLEAN : NoiseEncodeFrame(marshals, ok)
    \/ \E fed \in 0..MaxFed, fail_at \in 0..MaxFed : NoiseDecodeFrame(fed, fail_at)
    \/ NoiseClearBuffer
    \/ \E ok \in BOOLEAN : NoiseProcessHandshakeInit(ok)
    \/ \E ok \in BOOLEAN : NoiseProcessHandshakeFinish(ok)

SpecNoise == InitNoise /\ [][NextNoise]_vars

(***************************************************************************)
(* Properties.                                                             *)
(***************************************************************************)
\* Task t has returned from an operation of the given kind.
Done(t, kind) == pc[t] = "idle" /\ op[t].kind = kind

\* The call returned the record, at once and without any host call.
ServedFromCache(t, record) ==
    pc[t] = "idle" /\ calls[t] = <<>> /\ res[t] = Ok(Some(record))

NoStaleLoad ==
    \A t \in Tasks :
        (Done(t, "load_session") /\ IsSome(op[t].at_end_store))
            => /\ (res[t].ok /\ IsSome(res[t].v))
                     => Unwrap(res[t].v) = Unwrap(op[t].at_end_store).rec
               /\ op[t].left = Some(Unwrap(op[t].at_end_store).rec)

\* A load that was in flight when the store began has put the host's older
\* record over the stored one.
StaleLoadWitness ==
    \E t \in Tasks :
        /\ Done(t, "load_session") /\ ~op[t].hit /\ ~IsSome(op[t].seen_store)
        /\ op[t].at_end_store =
               Some([by |-> 3 - t, rec |-> EngineRecord(1), rejected |-> FALSE])
        /\ res[t] = Ok(Some(EngineRecord(0)))
        /\ cache[cellOf[t]].cached_sessions[op[t].key] = Some(EngineRecord(0))

\* C3: a store_session(addr, r) whose host write rejects returns an error
\* and leaves r in the cache; a load_session(addr) that follows returns r
\* without a host call.
RejectedStoreKeepsCache ==
    /\ \A t \in Tasks :
          (Done(t, "store_session") /\ op[t].rejected)
              => ~res[t].ok /\ op[t].left = op[t].rec
    /\ \A t \in Tasks :
          (op[t].kind = "load_session" /\ IsSome(op[t].seen_store)
              /\ Unwrap(op[t].seen_store).rejected)
              => ServedFromCache(t, Unwrap(op[t].seen_store).rec)

\* A load served r although the host never took r.
RejectedStoreWitness ==
    \E t \in Tasks :
        /\ op[t].kind = "load_session"
        /\ op[t].seen_store = Some([by |-> t, rec |-> EngineRecord(1), rejected |-> TRUE])
        /\ ServedFromCache(t, EngineRecord(1))
        /\ hostSessions[op[t].key] # JsU8(SessionSerialize(EngineRecord(1)))

\* C4: once a load_session(addr) returned a record, from canonical bytes or
\* from a legacy shape, every later load_session(addr) is served from the
\* cache: no host call, no migration, and the same record as long as no
\* store_session(addr) replaced it.
RepeatedLoadHitsCache ==
    \A t \in Tasks :
        (op[t].kind = "load_session" /\ IsSome(op[t].seen) /\ Unwrap(op[t].seen).loaded)
            => /\ pc[t] = "idle" /\ calls[t] = <<>> /\ ~op[t].migrated
               /\ res[t].ok /\ IsSome(res[t].v)
               /\ Unwrap(op[t].seen).src = "load"
                     => res[t] = Ok(Some(Unwrap(op[t].seen).rec))

\* A second load returned the migrated record while the host still holds
\* the legacy object.
RepeatedLoadWitness ==
    \E t \in Tasks :
        /\ op[t].kind = "load_session" /\ op[t].hit
        /\ IsSome(op[t].seen) /\ Unwrap(op[t].seen).src = "load"
        /\ ServedFromCache(t, Unwrap(op[t].seen).rec)
        /\ hostSessions[op[t].key] = LegacyDirect

\* C5: all clones share one cache.  A record stored or loaded through one
\* handle is returned by load_session through another without a host call,
\* and the identity key pair loaded through one handle is the one returned
\* through another.
ClonesShareCache ==
    /\ \A t, u \in Tasks : (cellOf[t] # 0 /\ cellOf[u] # 0) => cellOf[t] = cellOf[u]
    /\ \A t \in Tasks :
          (op[t].kind = "load_session" /\ IsSome(op[t].seen) /\ Unwrap(op[t].seen).by # t)
              => ServedFromCache(t, Unwrap(op[t].seen).rec)
    /\ \A t \in Tasks :
          (op[t].kind = "get_identity_key_pair" /\ IsSome(op[t].seen)
              /\ Unwrap(op[t].seen).by # t)
              => pc[t] = "idle" /\ calls[t] = <<>> /\ res[t] = Ok(Unwrap(op[t].seen).pair)

\* One handle stored after the clone was made, the other handle loaded.
ClonesShareWitness ==
    \E t, u \in Tasks :
        /\ t # u /\ pc[u] = "store_session" /\ op[u].seen = None
        /\ op[t].kind = "load_session"
        /\ op[t].seen = Some([src |-> "store", by |-> u, rec |-> EngineRecord(1),
                              loaded |-> FALSE])
        /\ ServedFromCache(t, EngineRecord(1))

\* The host calls a load_session made.
HostCallsOf(t) == {calls[t][i] : i \in 1..Len(calls[t])}

\* The value has one of the legacy session shapes.
LegacyShape(v) ==
    /\ v.t = "obj"
    /\ \/ HasOwn(v, "_sessions")
       \/ HasOwn(v, "registrationId") /\ HasOwn(v, "currentRatchet")

\* C6 as stated: a load_session that misses the cache issues exactly one
\* host call before it returns, whatever the host returns.
MissIssuesOneHostCall ==
    \A t \in Tasks :
        (Done(t, "load_session") /\ ~op[t].hit) => calls[t] = <<"loadSession">>

\* C6: a load_session that misses the cache issues exactly one loadSession
\* call; when the host returned a legacy session shape it issues in addition
\* at most one getIdentityKeyPair and then at most one
\* getLocalRegistrationId call, each only if that value is not cached; for
\* any other host value loadSession is its only host call.
MissIssuesOneLoadSession ==
    \A t \in Tasks :
        (Done(t, "load_session") /\ ~op[t].hit)
            => /\ calls[t] \in {<<"loadSession">>,
                                <<"loadSession", "getIdentityKeyPair">>,
                                <<"loadSession", "getLocalRegistrationId">>,
                                <<"loadSession", "getIdentityKeyPair",
                                  "getLocalRegistrationId">>}
               /\ Len(calls[t]) > 1 => IsSome(op[t].got) /\ LegacyShape(Unwrap(op[t].got))
               /\ IsSome(op[t].seen_identity) => "getIdentityKeyPair" \notin HostCallsOf(t)

\* A load of a legacy session made three host calls and returned the record.
MissThreeCallsWitness ==
    \E t \in Tasks :
        /\ Done(t, "load_session") /\ ~op[t].hit
        /\ op[t].got = Some(LegacyDirect)
        /\ Len(calls[t]) = 3
        /\ res[t].ok /\ IsSome(res[t].v)

\* C7: the identity key pair is loaded from the host once.  After the first
\* successful get_identity_key_pair no get_identity_key_pair, called on any
\* handle directly or by a migration, calls the host, and each returns the
\* pair of the first.
IdentityLoadedOnce ==
    /\ \A t \in Tasks :
          (op[t].kind = "get_identity_key_pair" /\ IsSome(op[t].seen))
              => pc[t] = "idle" /\ calls[t] = <<>> /\ res[t] = Ok(Unwrap(op[t].seen).pair)
    /\ \A t \in Tasks :
          (op[t].kind = "load_session" /\ IsSome(op[t].seen_identity))
              => "getIdentityKeyPair" \notin HostCallsOf(t)
    /\ \A c \in Cells :
          IsSome(cache[c].cached_identity_key_pair)
              => /\ IsSome(firstIdentity)
                 /\ cache[c].cached_identity_key_pair = Some(Unwrap(firstIdentity).pair)

\* Three calls: the first loaded the pair from the host, the later two did not.
IdentityLoadedOnceWitness ==
    \E t, u \in Tasks :
        /\ t # u /\ nOps = 3
        /\ Done(u, "get_identity_key_pair") /\ op[u].hit /\ calls[u] = <<>>
        /\ op[u].seen = Some([by |-> t, pair |-> res[u].v])
        /\ Done(t, "get_identity_key_pair") /\ op[t].hit
        /\ op[t].seen = op[u].seen

\* The bytes are no encoding of a session record.
UndecodableSession(v) == v.t = "u8" /\ ~SessionDeserialize(v.b).ok

\* The bytes are neither an encoding of a sender key record nor the text of
\* a JSON array.
UndecodableSenderKey(v) ==
    /\ v.t = "u8" /\ ~SenderKeyDeserialize(v.b).ok
    /\ ~(v.b.enc = "txt" /\ v.b.bracket /\ IsSome(v.b.json) /\ Unwrap(v.b.json).t = "arr")

\* Task t returns from the host read of a load that failed: the promise
\* rejected or resolved to undecodable bytes.
FailedRead(t) ==
    /\ pc[t] \in {"load_session", "load_sender_key"} /\ pc'[t] = "idle"
    /\ \/ op'[t].rejected
       \/ /\ IsSome(op'[t].got)
          /\ IF pc[t] = "load_session" THEN UndecodableSession(Unwrap(op'[t].got))
             ELSE UndecodableSenderKey(Unwrap(op'[t].got))

\* C8: when the host load call rejects, or resolves to bytes that decode
\* neither as a canonical record nor, for sender keys, as a legacy JSON
\* array, load_session and load_sender_key return an error, not None, and
\* leave the cache as it was.
FailedReadIsError ==
    [][\A t \in Tasks : FailedRead(t) => (~res'[t].ok /\ cache' = cache)]_vars

\* A load_session on undecodable bytes and a load_sender_key on a rejected
\* promise both ended in an error.
FailedReadWitness ==
    \/ \E t \in Tasks :
          /\ Done(t, "load_session") /\ op[t].got = Some(JsU8(Garbage))
          /\ ~res[t].ok /\ cache[cellOf[t]] = EmptyCache
    \/ \E t \in Tasks :
          /\ Done(t, "load_sender_key") /\ op[t].got = Some(JsU8(Txt(FALSE, Some(JsObj(<<>>)))))
          /\ ~res[t].ok /\ cache[cellOf[t]] = EmptyCache

\* The session object of a recognized legacy value: the value itself, or the
\* first entry of its _sessions wrapper.
LegacySessionOf(v) ==
    IF HasOwn(v, "registrationId") /\ HasOwn(v, "currentRatchet") THEN v
    ELSE ReflectGet(ReflectGet(v, "_sessions").v, ObjectKeys(ReflectGet(v, "_sessions").v)[1]).v

\* A recognized legacy session object that lacks a required field.
LacksRequiredField(v) ==
    /\ v \in LegacyIncomplete
    /\ \E f \in {"currentRatchet", "indexInfo", "_chains"} : ~HasOwn(LegacySessionOf(v), f)

\* C9: for a recognized legacy session object that lacks currentRatchet,
\* indexInfo or _chains, load_session returns None: neither an error nor a
\* record.
IncompleteLegacyIsNone ==
    \A t \in Tasks :
        (Done(t, "load_session") /\ IsSome(op[t].got) /\ ~op[t].rejected
            /\ LacksRequiredField(Unwrap(op[t].got)))
            => res[t] = Ok(None)

\* A legacy session without _chains made load_session fail.
IncompleteLegacyErrorWitness ==
    \E t \in Tasks :
        /\ Done(t, "load_session") /\ op[t].got = Some(LegacyNoChains) /\ ~op[t].rejected
        /\ res[t] = Err("InvalidState")

\* A legacy session without indexInfo made load_session return a record.
IncompleteLegacyRecordWitness ==
    \E t \in Tasks :
        /\ Done(t, "load_session") /\ op[t].got = Some(LegacyNoIndexInfo)
        /\ res[t].ok /\ IsSome(res[t].v)

\* C10: for a host value that is not null or undefined, not a byte buffer,
\* and has neither _sessions nor both registrationId and currentRatchet,
\* load_session returns None and not an error.
UnrecognizedIsNone ==
    \A t \in Tasks :
        (Done(t, "load_session") /\ IsSome(op[t].got)
            /\ Unwrap(op[t].got).t \notin {"null", "undefined", "u8"}
            /\ ~LegacyShape(Unwrap(op[t].got)))
            => res[t] = Ok(None) /\ calls[t] = <<"loadSession">>

\* An object with registrationId alone was taken for no session.
UnrecognizedWitness ==
    \E t \in Tasks :
        /\ Done(t, "load_session") /\ op[t].got = Some(JsObj(<<LegacyRegistrationId>>))
        /\ res[t] = Ok(None) /\ op[t].left = None

\* The first session of a _sessions wrapper.
FirstWrapped(v) ==
    ReflectGet(ReflectGet(v, "_sessions").v, ObjectKeys(ReflectGet(v, "_sessions").v)[1]).v

\* The record is the migration of this legacy session object: it carries the
\* object's registration id, root key and previous counter.
BuiltFrom(record, session) ==
    /\ IsSome(record.current_session)
    /\ Unwrap(record.current_session).remote_registration_id
           = Some(U32Field(session, "registrationId"))
    /\ Unwrap(record.current_session).root_key
           = Some(Base64Field(ReflectGet(session, "currentRatchet").v, "rootKey"))
    /\ Unwrap(record.current_session).previous_counter
           = Some(U32Field(ReflectGet(session, "currentRatchet").v, "previousCounter"))

\* A load_session that read the host value and returned a record.
LoadedFromHost(t) ==
    /\ Done(t, "load_session") /\ IsSome(op[t].got) /\ ~op[t].rejected
    /\ res[t].ok /\ IsSome(res[t].v)

\* C11: load_session classifies a non-null host value in the order (1) a
\* byte buffer is decoded and never migrated, (2) an object with _sessions is
\* a wrapper whose first key is the session migrated, (3) an object with
\* registrationId and currentRatchet is a direct session, (4) anything else
\* is absent; an object with _sessions and both direct fields is a wrapper.
WrapperBeforeDirect ==
    \A t \in Tasks :
        /\ (Done(t, "load_session") /\ IsSome(op[t].got)
                /\ Unwrap(op[t].got).t = "u8")
              => ~op[t].migrated /\ calls[t] = <<"loadSession">>
        /\ (LoadedFromHost(t) /\ Unwrap(op[t].got).t = "obj"
                /\ HasOwn(Unwrap(op[t].got), "_sessions"))
              => BuiltFrom(Unwrap(res[t].v), FirstWrapped(Unwrap(op[t].got)))
        /\ (LoadedFromHost(t) /\ Unwrap(op[t].got).t = "obj"
                /\ ~HasOwn(Unwrap(op[t].got), "_sessions"))
              => /\ HasOwn(Unwrap(op[t].got), "registrationId")
                 /\ HasOwn(Unwrap(op[t].got), "currentRatchet")
                 /\ BuiltFrom(Unwrap(res[t].v), Unwrap(op[t].got))
        /\ (Done(t, "load_session") /\ IsSome(op[t].got) /\ ~op[t].rejected
                /\ Unwrap(op[t].got).t \notin {"null", "undefined", "u8"}
                /\ ~LegacyShape(Unwrap(op[t].got)))
              => res[t] = Ok(None)

\* An object with _sessions and both direct fields was migrated as a direct
\* session: the record carries the fields of the object itself, not those of
\* its first wrapped session.
DirectBeforeWrapperWitness ==
    \E t \in Tasks :
        /\ LoadedFromHost(t) /\ op[t].got = Some(LegacyBoth)
        /\ BuiltFrom(Unwrap(res[t].v), LegacyOther)
        /\ ~BuiltFrom(Unwrap(res[t].v), LegacyDirect)

\* The second session of a _sessions wrapper, in enumeration order.
SecondWrapped(v) ==
    ReflectGet(ReflectGet(v, "_sessions").v, ObjectKeys(ReflectGet(v, "_sessions").v)[2]).v

\* The record shares no distinguishing field with this legacy session.
NothingOf(record, session) ==
    /\ Unwrap(record.current_session).remote_registration_id
           # Some(U32Field(session, "registrationId"))
    /\ Unwrap(record.current_session).root_key
           # Some(Base64Field(ReflectGet(session, "currentRatchet").v, "rootKey"))
    /\ Unwrap(record.current_session).previous_counter
           # Some(U32Field(ReflectGet(session, "currentRatchet").v, "previousCounter"))

\* C12: given a _sessions wrapper holding two well-formed legacy sessions,
\* load_session returns no error but a record built from exactly the first
\* key in enumeration order; nothing of the second session appears in it.
TwoSessionsFirstOnly ==
    \A t \in Tasks :
        (Done(t, "load_session") /\ IsSome(op[t].got) /\ ~op[t].rejected
            /\ Unwrap(op[t].got) \in TwoSessionWrappers)
            => /\ res[t].ok /\ IsSome(res[t].v)
               /\ BuiltFrom(Unwrap(res[t].v), FirstWrapped(Unwrap(op[t].got)))
               /\ NothingOf(Unwrap(res[t].v), SecondWrapped(Unwrap(op[t].got)))
               /\ Unwrap(res[t].v).previous_sessions = <<>>

\* Both wrappers were loaded to the record of LegacyDirect: the session
\* under the first key inserted, and the one under the index key that was
\* inserted second and is enumerated first.
TwoSessionsWitness ==
    /\ FirstWrapped(LegacyTwoIndexed) = LegacyDirect
    /\ \E t \in Tasks :
          /\ LoadedFromHost(t) /\ op[t].got = Some(LegacyTwoIndexed)
          /\ BuiltFrom(Unwrap(res[t].v), LegacyDirect)
          /\ NothingOf(Unwrap(res[t].v), LegacyOther)

\* The number a decimal-string index key denotes.
IndexOfKey(k) == (CHOOSE i \in 1..Len(IndexKeys) : IndexKeys[i] = k) - 1

\* The messageKeys map of the chain stored under map_key in a legacy session.
LegacyMessageKeys(session, map_key) ==
    ReflectGet(ReflectGet(ReflectGet(session, "_chains").v, map_key).v, "messageKeys").v

\* The message keys a migrated chain is to carry for a legacy messageKeys
\* map: one per entry, same index, cipher key the decoded base64 value, MAC
\* key 32 zero bytes, IV 16 zero bytes.
ExpectedMessageKeys(mk) ==
    [j \in 1..Len(ObjectKeys(mk)) |->
        [index |-> Some(IndexOfKey(ObjectKeys(mk)[j])),
         cipher_key |-> Some(Base64OrEmpty(ReflectGet(mk, ObjectKeys(mk)[j]).v.s)),
         mac_key |-> Some([i \in 1..32 |-> 0]),
         iv |-> Some([i \in 1..16 |-> 0])]]

\* C13: for a well-formed legacy session whose chains carry message keys,
\* load_session succeeds and every migrated chain contains exactly one
\* message key per messageKeys entry, with the same index, the decoded
\* base64 value as cipher key, a MAC key of 32 zero bytes and an IV of 16
\* zero bytes.
MessageKeysMigrated ==
    \A t \in Tasks :
        (Done(t, "load_session") /\ op[t].got = Some(LegacyKeyed) /\ ~op[t].rejected)
            => /\ res[t].ok /\ IsSome(res[t].v)
               /\ Unwrap(Unwrap(Unwrap(res[t].v).current_session).sender_chain).message_keys
                     = ExpectedMessageKeys(LegacyMessageKeys(LegacyKeyed, "Ag=="))
               /\ Len(Unwrap(Unwrap(res[t].v).current_session).receiver_chains) = 1
               /\ Unwrap(Unwrap(res[t].v).current_session).receiver_chains[1].message_keys
                     = ExpectedMessageKeys(LegacyMessageKeys(LegacyKeyed, "BA=="))

\* A legacy session with two message keys in its receiver chain made
\* load_session fail, with no host call rejected, after the loadSession call
\* and the identity read that precedes the loop over the chains.
MessageKeysErrorWitness ==
    \E t \in Tasks :
        /\ Done(t, "load_session") /\ op[t].got = Some(LegacyKeyed) /\ ~op[t].rejected
        /\ Len(ExpectedMessageKeys(LegacyMessageKeys(LegacyKeyed, "BA=="))) = 2
        /\ res[t] = Err("InvalidState")
        /\ cache[cellOf[t]].cached_sessions[op[t].key] = None

\* The bytes are a legacy JSON array of sender-key states: each element
\* has senderChainKey, senderSigningKey and senderMessageKeys.
LegacySenderKeyArray(v) ==
    /\ v.t = "u8" /\ v.b.enc = "txt" /\ v.b.bracket
    /\ IsSome(v.b.json) /\ Unwrap(v.b.json).t = "arr"
    /\ \A i \in 1..Len(Unwrap(v.b.json).a) :
          /\ HasOwn(Unwrap(v.b.json).a[i], "senderChainKey")
          /\ HasOwn(Unwrap(v.b.json).a[i], "senderSigningKey")
          /\ HasOwn(Unwrap(v.b.json).a[i], "senderMessageKeys")

\* The migrated state carries the element's senderKeyId and
\* senderChainKey.iteration, and has no signing private key exactly when
\* the element has none.
StateMatches(state, element) ==
    /\ state.sender_key_id = Some(ReflectGet(element, "senderKeyId").v.n)
    /\ Unwrap(state.sender_chain_key).iteration
          = Some(ReflectGet(ReflectGet(element, "senderChainKey").v, "iteration").v.n)
    /\ (Unwrap(state.sender_signing_key).private = None)
          <=> ~HasOwn(ReflectGet(element, "senderSigningKey").v, "private")

\* C14: when the host returns bytes that are a legacy JSON array of n
\* sender-key states, load_sender_key returns a record with exactly n states
\* in array order, each carrying the element's senderKeyId and
\* senderChainKey.iteration, the signing private key absent exactly when the
\* element has none.
LegacySenderKeysMigrated ==
    \A t \in Tasks :
        (Done(t, "load_sender_key") /\ IsSome(op[t].got) /\ ~op[t].rejected
            /\ LegacySenderKeyArray(Unwrap(op[t].got)))
            => /\ res[t].ok /\ IsSome(res[t].v)
               /\ Len(Unwrap(res[t].v).sender_key_states)
                     = Len(Unwrap(Unwrap(op[t].got).b.json).a)
               /\ \A i \in 1..Len(Unwrap(Unwrap(op[t].got).b.json).a) :
                     StateMatches(Unwrap(res[t].v).sender_key_states[i],
                                  Unwrap(Unwrap(op[t].got).b.json).a[i])

\* A legacy array of two states, the first with a signing private key and
\* the second without, was loaded to a record of two states.
LegacySenderKeysWitness ==
    \E t \in Tasks :
        /\ Done(t, "load_sender_key") /\ IsSome(op[t].got) /\ res[t].ok /\ IsSome(res[t].v)
        /\ LegacySenderKeyArray(Unwrap(op[t].got))
        /\ Len(Unwrap(res[t].v).sender_key_states) = 2
        /\ Unwrap(res[t].v).sender_key_states[1].sender_key_id = Some(1)
        /\ Unwrap(Unwrap(res[t].v).sender_key_states[1].sender_signing_key).private # None
        /\ Unwrap(res[t].v).sender_key_states[2].sender_key_id = Some(2)
        /\ Unwrap(Unwrap(res[t].v).sender_key_states[2].sender_signing_key).private = None

\* The host's answer to the query of task t is no boolean.
NoTrustDecision(t) ==
    /\ Done(t, "is_trusted_identity") /\ IsSome(op[t].got)
    /\ AsBool(Unwrap(op[t].got)) = None

\* C17: is_trusted_identity returns "trusted" whenever the host supplies no
\* boolean trust decision for the query.
NoDecisionIsTrusted ==
    \A t \in Tasks : NoTrustDecision(t) => res[t] = Ok(TRUE)

\* The host answered undefined and is_trusted_identity returned "not trusted",
\* leaving the cache without the key.
NoDecisionUntrustedWitness ==
    \E t \in Tasks :
        /\ NoTrustDecision(t) /\ op[t].got = Some(JsUndefined)
        /\ res[t] = Ok(FALSE)
        /\ cache[cellOf[t]].cached_identities[op[t].key] = None

\* C18: a trusted decision cached for one address (name and device id) and
\* key is reused without a host call only for later is_trusted_identity
\* queries on that same address and key: a query answered from the cache
\* asks about a name, device id and key an identity was cached for before.
TrustCachedPerAddress ==
    \A t \in Tasks :
        (op[t].kind = "is_trusted_identity" /\ op[t].hit)
            => Unwrap(op[t].arg) \in op[t].log

\* The host trusted the key for device 1 of alice, and the query for device 2
\* of alice was answered "trusted" from the cache, without a host call.
TrustOtherDeviceWitness ==
    \E t \in Tasks :
        /\ op[t].kind = "is_trusted_identity" /\ op[t].hit
        /\ calls[t] = <<>> /\ res[t] = Ok(TRUE)
        /\ Unwrap(op[t].arg) = IdentityQuery("alice", 2, <<DjbType, 2>>)
        /\ op[t].log = {IdentityQuery("alice", 1, <<DjbType, 2>>)}

\* A query answered from the cache asks about a name and key an identity was
\* cached for before, under some device id.
TrustCachedPerName ==
    \A t \in Tasks :
        (op[t].kind = "is_trusted_identity" /\ op[t].hit)
            => \E q \in op[t].log :
                  q.name = Unwrap(op[t].arg).name /\ q.key = Unwrap(op[t].arg).key

\* The host call a pre-key load issues.
LoadCallOf(kind) == IF kind = "get_pre_key" THEN "loadPreKey" ELSE "loadSignedPreKey"

\* The error of a pre-key load for an id the host has nothing for.
InvalidIdOf(kind) ==
    IF kind = "get_pre_key" THEN "InvalidPreKeyId" ELSE "InvalidSignedPreKeyId"

\* C19: get_pre_key(id) and get_signed_pre_key(id) never serve a cached key:
\* every call issues a host load, and when the host returns null or
\* undefined for the id the call fails with InvalidPreKeyId, respectively
\* InvalidSignedPreKeyId; a call that returns a key returns one the host
\* held when its load settled.
PreKeysNeverCached ==
    \A t \in Tasks :
        op[t].kind \in {"get_pre_key", "get_signed_pre_key"}
            => /\ ~op[t].hit /\ calls[t] = <<LoadCallOf(op[t].kind)>>
               /\ (pc[t] = "idle" /\ ~op[t].rejected)
                     => /\ IsSome(op[t].got)
                        /\ Unwrap(op[t].got).t \in {"null", "undefined"}
                              => res[t] = Err(InvalidIdOf(op[t].kind))
                        /\ res[t].ok => Unwrap(op[t].got).t = "obj"
               /\ (pc[t] = "idle" /\ op[t].rejected) => ~res[t].ok

\* A get_pre_key for an id after a remove_pre_key of that id returned, the
\* host answering undefined for the id it dropped: it issued its host load
\* and failed with InvalidPreKeyId.
PreKeyAfterRemoveWitness ==
    \E t, u \in Tasks :
        /\ t # u /\ Done(u, "remove_pre_key") /\ res[u] = Ok(Unit)
        /\ Done(t, "get_pre_key") /\ op[t].arg = op[u].arg
        /\ op[t].got = Some(JsUndefined) /\ res[t] = Err("InvalidPreKeyId")
        /\ calls[t] = <<"loadPreKey">>

\* A get_signed_pre_key returned a key read from the host.
SignedPreKeyServedWitness ==
    \E t \in Tasks :
        /\ Done(t, "get_signed_pre_key") /\ res[t].ok
        /\ op[t].got = Some(HostSignedPreKey(Unwrap(op[t].arg), TRUE))

\* C20: remove_pre_key(id) is fire-and-forget: it issues one removePreKey
\* call and returns success without depending on the completion or the
\* outcome of that call.
RemoveIsFireAndForget ==
    \A t \in Tasks :
        op[t].kind = "remove_pre_key"
            => calls[t] = <<"removePreKey">> /\ pc[t] = "idle" /\ res[t] = Ok(Unit)

\* A remove_pre_key whose host call rejected returned the error.
RemoveRejectedWitness ==
    \E t \in Tasks :
        /\ Done(t, "remove_pre_key") /\ op[t].rejected
        /\ calls[t] = <<"removePreKey">> /\ res[t] = Err("FfiBindingError")

\* remove_pre_key issues one removePreKey call, returns only when that call
\* has settled, and returns success exactly when the call did not reject.
RemoveAwaitsHost ==
    \A t \in Tasks :
        op[t].kind = "remove_pre_key"
            => /\ calls[t] = <<"removePreKey">>
               /\ pc[t] = "idle" => (res[t] = Ok(Unit) <=> ~op[t].rejected)
               /\ pc[t] = "idle" => (res[t] = Err("FfiBindingError") <=> op[t].rejected)

(***************************************************************************)
(* SessionBuilder.initOutgoing.                                            *)
(***************************************************************************)
\* The load_session of task t's init_outgoing returned a session that
\* deserializes and has a usable sender chain.
FoundUsable(t) ==
    /\ IsSome(Unwrap(op[t].first).v)
    /\ IsSome(Unwrap(Unwrap(op[t].first).v).current_session)
    /\ IsSome(Unwrap(Unwrap(Unwrap(op[t].first).v).current_session).sender_chain)

\* The host calls of task t's operation that write to the host.
HostWrites(t) ==
    {i \in 1..Len(calls[t]) : calls[t][i] \in {"storeSession", "saveIdentity"}}

\* What an error of task t's bundle processing is due to when it is not due
\* to the session found: a rejected host call, the bundle, the trust
\* decision, the local identity or the local registration id.
ErrorNotOfSession(t) ==
    \/ op[t].rejected
    \/ ~Unwrap(op[t].arg).well_formed
    \/ res[t] \in {Err("UntrustedIdentity"), Err("SignatureValidationFailed")}
    \/ res[t] = IdentityFromHost(hostIdentity)
    \/ res[t] = RegistrationFromHost(hostRegId)

\* C15: once the load_session of an initOutgoing returned without error, the
\* call returns Ok at once, the bundle unprocessed and no host write issued,
\* if the session found has a usable sender chain; otherwise (no session, or
\* one without a usable sender chain) it processes the bundle, and an error
\* it then ends with is not due to that session.
InitOutgoingRekeys ==
    \A t \in Tasks :
        (op[t].kind = "init_outgoing" /\ IsSome(op[t].first) /\ Unwrap(op[t].first).ok) =>
            IF FoundUsable(t)
            THEN /\ ~op[t].processed
                 /\ pc[t] = "idle" /\ res[t] = Ok(Unit)
                 /\ HostWrites(t) = {}
            ELSE /\ op[t].processed
                 /\ (pc[t] = "idle" /\ ~res[t].ok) => ErrorNotOfSession(t)

\* An initOutgoing that found a session without a sender chain processed the
\* bundle and stored the new session, the one found archived.
RekeyedWitness ==
    \E t \in Tasks :
        /\ op[t].kind = "init_outgoing" /\ pc[t] = "idle" /\ res[t] = Ok(Unit)
        /\ op[t].first = Some(Ok(Some(ChainlessRecord)))
        /\ op[t].processed /\ HostWrites(t) # {}
        /\ hostSessions[op[t].key].t = "u8"
        /\ SessionDeserialize(hostSessions[op[t].key].b).ok
        /\ Len(SessionDeserialize(hostSessions[op[t].key].b).v.previous_sessions) = 1

\* An initOutgoing that found a usable session returned without processing.
SkippedWitness ==
    \E t \in Tasks :
        /\ op[t].kind = "init_outgoing" /\ pc[t] = "idle" /\ res[t] = Ok(Unit)
        /\ IsSome(op[t].first) /\ Unwrap(op[t].first).ok /\ FoundUsable(t)
        /\ ~op[t].processed

\* C16: an initOutgoing whose load_session failed ends with that error: it
\* does not process the bundle.
LoadFailureAborts ==
    \A t \in Tasks :
        (op[t].kind = "init_outgoing" /\ IsSome(op[t].first) /\ ~Unwrap(op[t].first).ok) =>
            /\ ~op[t].processed
            /\ pc[t] = "idle" /\ res[t] = Unwrap(op[t].first)

\* An initOutgoing whose loadSession call was rejected went on to process the
\* bundle, and returned Ok with a new session stored.
LoadFailureRekeyedWitness ==
    \E t \in Tasks :
        /\ op[t].kind = "init_outgoing" /\ pc[t] = "idle" /\ res[t] = Ok(Unit)
        /\ op[t].first = Some(Err("FfiBindingError"))
        /\ op[t].processed /\ HostWrites(t) # {}

(***************************************************************************)
(* Sender keys: read-your-writes and the key string.                       *)
(***************************************************************************)
\* The operation of task t is a sender key operation on name n.
SenderKeyOp(t) == op[t].kind \in {"load_sender_key", "store_sender_key"}

\* C21: a load_sender_key(name) that starts after store_sender_key(name, r)
\* started on the adapter, r being the record of the last such store, returns
\* r and issues no host call; and each sender key operation addresses the
\* cache and the host by the group id, "::" and the sender id of its name.
SenderKeyReadYourWrites ==
    \A t \in Tasks :
        /\ (op[t].kind = "load_sender_key" /\ IsSome(op[t].seen_store))
              => ServedFromCache(t, Unwrap(op[t].seen_store).rec)
        /\ SenderKeyOp(t) =>
              op[t].key = Unwrap(op[t].arg).group_id \o "::" \o Unwrap(op[t].arg).sender_id

\* A load of the name stored last, after a store to the other name and a
\* second store replaced the first record of the name; the host call of the
\* last store was rejected.
SenderKeyReadYourWritesWitness ==
    \E t \in Tasks :
        /\ op[t].kind = "load_sender_key" /\ nOps = 3
        /\ op[t].key = "crew::alice::1"
        /\ IsSome(op[t].seen_store) /\ Unwrap(op[t].seen_store).rec = EngineSenderKeyRecord(2)
        /\ ServedFromCache(t, EngineSenderKeyRecord(2))
        /\ hostSenderKeys[op[t].key] # JsU8(SenderKeySerialize(EngineSenderKeyRecord(2)))

(***************************************************************************)
(* ensure_curve_key_with_prefix.                                           *)
(***************************************************************************)
\* What normalizing k is to give.
Normalized(k) ==
    IF Len(k) = 33 /\ k[1] = 5 THEN k
    ELSE IF Len(k) = 32 THEN <<5>> \o k
    ELSE k

\* C22: normalizing a key of 33 bytes that starts with 0x05 returns it
\* unchanged, normalizing a key of 32 bytes returns 0x05 followed by the key,
\* normalizing a key of any other length returns it unchanged; and for a key
\* of 32 or 33 bytes, normalizing the normalized key changes nothing.
NormalizeIdempotent ==
    \A t \in Tasks :
        /\ op[t].kind = "normalize" => res[t] = Ok(Normalized(Unwrap(op[t].arg)))
        /\ (op[t].kind = "normalize_again" /\ Len(Unwrap(op[t].arg)) \in {32, 33})
              => res[t] = Ok(Unwrap(op[t].got))

\* A 32-byte key that itself starts with 0x05 was prefixed, and the 33 bytes
\* normalized again.
NormalizeAgainWitness ==
    \E t \in Tasks :
        /\ op[t].kind = "normalize_again"
        /\ Len(Unwrap(op[t].arg)) = 32 /\ Unwrap(op[t].arg)[1] = 5
        /\ Len(res[t].v) = 33 /\ res[t].v = <<5>> \o Unwrap(op[t].arg)

\* A key of 34 bytes came back as it was.
NormalizeLongWitness ==
    \E t \in Tasks :
        /\ op[t].kind = "normalize" /\ Len(Unwrap(op[t].arg)) = 34
        /\ res[t] = Ok(Unwrap(op[t].arg))

(***************************************************************************)
(* ProtocolAddress.                                                        *)
(***************************************************************************)
\* Task t holds an address it constructed.
Constructed(t) == op[t].kind \in {"new", "from"} /\ res[t].ok

\* C23: no constructed address has a '.' in its name; two constructed
\* addresses that differ in name or device id have different string forms;
\* and parsing the string form of a constructed address gives the address.
AddressKeyUnambiguous ==
    /\ \A t \in Tasks : Constructed(t) => ~Contains(res[t].v.name, ".")
    /\ \A t, u \in Tasks :
          (Constructed(t) /\ Constructed(u) /\ res[t].v # res[u].v)
              => ProtocolAddressToString(res[t].v) # ProtocolAddressToString(res[u].v)
    /\ \A t \in Tasks : op[t].kind = "parse_back" => res[t] = Ok(Unwrap(op[t].got))

\* A name with a '.' was rejected by one task while another parsed back the
\* address ("1", 11), whose name is itself a number.
AddressRoundTripWitness ==
    \E t, u \in Tasks :
        /\ op[t].kind = "new" /\ res[t] = Err("encoded addr detected")
        /\ op[u].kind = "parse_back" /\ op[u].arg = Some("new")
        /\ res[u] = Ok([name |-> <<"1">>, device_id |-> 11])

(***************************************************************************)
(* The session record codec.                                               *)
(***************************************************************************)
\* Encoding r, decoding the bytes and encoding again gives the same bytes.
ReencodesTo(bytes, decoded) == decoded.ok /\ SessionSerialize(decoded.v) = bytes

RoundTrips(r) == ReencodesTo(SessionSerialize(r), SessionDeserialize(SessionSerialize(r)))

\* The session records of the system: those the adapters cache (loaded,
\* migrated or stored) and those a builder is about to promote or store.
SessionRecordsHeld ==
    {Unwrap(cache[c].cached_sessions[a]) :
        c \in {d \in Cells : \E a \in SessionAddrs : IsSome(cache[d].cached_sessions[a])},
        a \in SessionAddrs}
    \cup {Unwrap(loc[t].record) : t \in {u \in Tasks : IsSome(loc[u].record)}}

LegacyChainsOf(session) == ReflectGet(session, "_chains").v

ChainTypeOf(chains, map_key) == U32Field(ReflectGet(chains, map_key).v, "chainType")

ChainKeysOfType(chains, chain_type) ==
    SelectSeq(ObjectKeys(chains), LAMBDA k : ChainTypeOf(chains, k) = chain_type)

\* The chain a legacy chain entry without message keys is to become.
ExpectedChain(chain, ratchet_key, ratchet_key_private) ==
    [sender_ratchet_key |-> Some(ratchet_key),
     sender_ratchet_key_private |-> ratchet_key_private,
     chain_key |-> Some([index |-> Some(U32Field(ReflectGet(chain, "chainKey").v, "counter")),
                         key |-> Some(Base64Field(ReflectGet(chain, "chainKey").v, "key"))]),
     message_keys |-> <<>>]

EphemeralKeyPairOf(session) ==
    ReflectGet(ReflectGet(session, "currentRatchet").v, "ephemeralKeyPair").v

ExpectedSenderChain(session, keys) ==
    IF keys = <<>> THEN None
    ELSE Some(ExpectedChain(ReflectGet(LegacyChainsOf(session), keys[1]).v,
                            Base64Field(EphemeralKeyPairOf(session), "pubKey"),
                            Some(Base64Field(EphemeralKeyPairOf(session), "privKey"))))

ExpectedReceiverChains(chains, keys) ==
    [j \in 1..Len(keys) |->
        ExpectedChain(ReflectGet(chains, keys[j]).v, Base64OrEmpty(keys[j]), None)]

ChainsMigratedFrom(record, session) ==
    /\ IsSome(record.current_session)
    /\ record.previous_sessions = <<>>
    /\ Unwrap(record.current_session).sender_chain
          = ExpectedSenderChain(session, ChainKeysOfType(LegacyChainsOf(session), 1))
    /\ Unwrap(record.current_session).receiver_chains
          = ExpectedReceiverChains(LegacyChainsOf(session),
                                   ChainKeysOfType(LegacyChainsOf(session), 2))

\* C25: the record load_session returns for a legacy session has a current
\* session and no previous sessions; its sender chain is the chainType 1 entry
\* of _chains with the ephemeral key pair as ratchet key pair (no sender chain
\* when there is no such entry); its receiver chains are the chainType 2
\* entries in the order Object.keys enumerates them, each with the decoded
\* map key as ratchet public key; entries of another type give no chain.
LegacyChainsMigrated ==
    \A t \in Tasks :
        (LoadedFromHost(t) /\ LegacyShape(Unwrap(op[t].got)))
            => ChainsMigratedFrom(Unwrap(res[t].v), LegacySessionOf(Unwrap(op[t].got)))

\* The session with six chain entries was migrated: three receiver chains,
\* the one under the index key "1" first, and the sender chain.
LegacyChainsWitness ==
    \E t \in Tasks :
        /\ LoadedFromHost(t) /\ op[t].got = Some(LegacyMany)
        /\ Len(ObjectKeys(LegacyChainsOf(LegacyMany))) = 6
        /\ ChainKeysOfType(LegacyChainsOf(LegacyMany), 2) = <<"1", "BA==", "CA==">>
        /\ Len(Unwrap(Unwrap(res[t].v).current_session).receiver_chains) = 3
        /\ IsSome(Unwrap(Unwrap(res[t].v).current_session).sender_chain)

\* The host reads decrypt_message makes for a message before it decrypts.
DecryptFetches(msg_type, message) ==
    <<"getIdentityKeyPair", "getLocalRegistrationId", "loadSession">>
        \o (IF msg_type = "pkmsg" THEN <<"loadSignedPreKey">> ELSE <<>>)
        \o (IF msg_type = "pkmsg" /\ IsSome(message.pre_key_id) THEN <<"loadPreKey">>
            ELSE <<>>)

IsPrefixOf(s, whole) == Len(s) <= Len(whole) /\ s = SubSeq(whole, 1, Len(s))

DecryptInOrder(host_calls, fetches, decrypted) ==
    /\ IsPrefixOf(host_calls, fetches \o <<"storeSession", "removePreKey">>)
    /\ decrypted => IsPrefixOf(fetches, host_calls)
    /\ Len(host_calls) > Len(fetches) => decrypted

\* C26: decryptMessage fetches, processes and writes back in that order.
\* The host calls of a decryptMessage are, in this order, getIdentityKeyPair,
\* getLocalRegistrationId, loadSession, for a pkmsg loadSignedPreKey and then
\* (when the message names one) loadPreKey, then storeSession, then
\* removePreKey; all the reads are made before message_decrypt returns Ok, and
\* storeSession and removePreKey are called only after it has: a call that
\* failed before has called neither.
DecryptFetchProcessWriteBack ==
    \A t \in Tasks :
        op[t].kind = "decrypt"
            => DecryptInOrder(calls[t], DecryptFetches(Unwrap(op[t].arg)[1],
                                                       Unwrap(op[t].arg)[2]),
                              op[t].processed)

\* A pkmsg with a one-time pre-key decrypted and written back, after a call
\* that failed at its signed pre-key.
DecryptWriteBackWitness ==
    \E t, u \in Tasks :
        /\ op[t].kind = "decrypt" /\ pc[t] = "idle" /\ res[t] = Ok(<<1>>)
        /\ calls[t] = <<"getIdentityKeyPair", "getLocalRegistrationId", "loadSession",
                        "loadSignedPreKey", "loadPreKey", "storeSession", "removePreKey">>
        /\ hostPreKeys[2] = JsUndefined
        /\ hostSessions[DecryptAddress] = JsU8(SessionSerialize(EngineRecord(1)))
        /\ op[u].kind = "decrypt" /\ pc[u] = "idle" /\ ~res[u].ok /\ ~op[u].processed
        /\ calls[u] = <<"getIdentityKeyPair", "getLocalRegistrationId", "loadSession",
                        "loadSignedPreKey">>

\* The task that takes the step.
Acts(t) == op'[t] # op[t] \/ pc'[t] # pc[t] \/ res'[t] # res[t]

\* An entry of a session or sender-key table changes in a step of task t
\* only to a record: the one a store of that key puts there as it starts,
\* or the one a load of that key returns in this step.
EntryPut(t, load, store, k, old, new) ==
    old # new =>
        /\ IsSome(new) /\ op'[t].key = k
        /\ \/ op'[t].kind = store /\ pc[t] = "idle" /\ new = op'[t].rec
           \/ op'[t].kind = load /\ pc'[t] = "idle" /\ res'[t] = Ok(new)

\* What a step of task t may change in the caches old of its handle.
CachePuts(t, old, new) ==
    /\ \A a \in SessionAddrs :
          EntryPut(t, "load_session", "store_session", a,
                   old.cached_sessions[a], new.cached_sessions[a])
    /\ \A k \in SenderKeyIds :
          EntryPut(t, "load_sender_key", "store_sender_key", k,
                   old.cached_sender_keys[k], new.cached_sender_keys[k])
    /\ old.cached_identity_key_pair # new.cached_identity_key_pair
          => /\ IsSome(new.cached_identity_key_pair)
             /\ op'[t].kind \in {"get_identity_key_pair", "load_session"}
    /\ old.cached_registration_id # new.cached_registration_id
          => /\ IsSome(new.cached_registration_id)
             /\ op'[t].kind \in {"get_local_registration_id", "load_session"}
    /\ \A n \in AddressNames :
          old.cached_identities[n] # new.cached_identities[n] => IsSome(new.cached_identities[n])

\* The step of a load that returns None changes no cache.
AbsentNotMemoized(t) ==
    (Acts(t) /\ op'[t].kind \in {"load_session", "load_sender_key"}
        /\ pc'[t] = "idle" /\ res'[t] = Ok(None)) => cache' = cache

\* A load_session that began with no identity key pair fetched yet, fetched
\* it and left it in the cache of its handle.
FilledIdentity(t) ==
    /\ op[t].kind = "load_session" /\ pc[t] = "idle"
    /\ ~IsSome(op[t].seen_identity) /\ IsSome(firstIdentity)
    /\ Unwrap(firstIdentity).by = t
    /\ cache[cellOf[t]].cached_identity_key_pair = Some(Unwrap(firstIdentity).pair)

\* C27 as stated, for a load that fails: a load_session that returned an
\* error has changed no cache table.
LoadErrorChangesNoCache == \A t \in Tasks : FilledIdentity(t) => res[t].ok

\* C27, amended: a cache entry changes only to a record, never to nothing:
\* the entry of a session or sender key to the record a store of that key puts
\* there when it starts (before the host write, whatever becomes of it) or to
\* the record a load of that key returns; the identity key pair and the
\* registration id to the value a getter or the migration inside load_session
\* fetched (which stays when that load_session fails afterwards); the step of
\* a load that returns None changes no cache, and a load that returns None has
\* not filled the identity key pair either.
CacheChangesOnlyByPut ==
    [][/\ \A c \in Cells :
             cache'[c] # cache[c]
                 => \E t \in Tasks : cellOf[t] = c /\ Acts(t) /\ CachePuts(t, cache[c], cache'[c])
       /\ \A t \in Tasks : AbsentNotMemoized(t)
       /\ \A t \in Tasks : (FilledIdentity(t) => res[t] # Ok(None))']_vars

\* A load_session of a legacy session fetched and cached the identity key
\* pair and then failed at the registration id; the session table is empty.
LoadErrorFilledIdentityWitness ==
    \E t \in Tasks :
        /\ FilledIdentity(t) /\ ~res[t].ok
        /\ calls[t] = <<"loadSession", "getIdentityKeyPair", "getLocalRegistrationId">>
        /\ cache[cellOf[t]].cached_sessions[op[t].key] = None

\* The host vouched for the name and key of query q before: it answered
\* "trusted" for them or completed a saveIdentity for them.
VouchedFor(log, q) == \E v \in log : v.name = q.name /\ v.key = q.key

\* Every is_trusted_identity answered from the cache is answered "trusted",
\* for a name and key the host vouched for before the call.
TrustedHitsVouched ==
    \A t \in Tasks :
        (op[t].kind = "is_trusted_identity" /\ op[t].hit)
            => /\ res[t] = Ok(TRUE) /\ calls[t] = <<>>
               /\ VouchedFor(op[t].log, Unwrap(op[t].arg))

\* The step that ends an identity operation of task t without the host
\* vouching: is_trusted_identity answered "not trusted" or its promise
\* rejected, or the saveIdentity promise rejected.
EndsUnvouched(t) ==
    /\ Acts(t) /\ pc[t] \in {"is_trusted_identity", "save_identity"} /\ pc'[t] = "idle"
    /\ res'[t] # Ok(TRUE) \/ op'[t].rejected
    /\ pc[t] = "save_identity" => op'[t].rejected

\* C28: is_trusted_identity answers "trusted" without a host call only for a
\* name and key for which the host answered "trusted" before or for which a
\* save_identity completed its host call; the step in which the host answers
\* "not trusted" (or answers nothing, or fails) and the step in which a
\* saveIdentity call fails change no cache.
TrustCacheOnlyVouched ==
    [][/\ TrustedHitsVouched'
       /\ \A t \in Tasks : EndsUnvouched(t) => cache' = cache]_vars

\* A query answered "trusted" from the cache, the third operation, after a
\* save_identity of another task for its name and key completed its host call
\* and nothing else was vouched for.
TrustAfterSaveWitness ==
    \E t \in Tasks :
        /\ op[t].kind = "is_trusted_identity" /\ op[t].hit /\ res[t] = Ok(TRUE)
        /\ calls[t] = <<>> /\ nOps = 3
        /\ op[t].log = {Unwrap(op[t].arg)}
        /\ \E u \in Tasks \ {t} :
              /\ Done(u, "save_identity") /\ ~op[u].rejected /\ ~op[u].hit
              /\ op[u].arg = op[t].arg

\* The session is in handshake mode, or in transport mode.
HandshakeMode(session) == ~session.is_finished /\ IsSome(session.handshake)

TransportMode(session) ==
    /\ session.is_finished /\ ~IsSome(session.handshake)
    /\ IsSome(session.enc_cipher) /\ IsSome(session.dec_cipher)

\* C29: in every reachable NoiseSession state exactly one mode is usable,
\* handshake mode (is_finished false, the handshake present) or transport
\* mode (is_finished true, the handshake absent, both ciphers present).
NoiseOneMode == HandshakeMode(noise.session) \/ TransportMode(noise.session)

\* finishInit failed: the handshake is gone, is_finished is false and there
\* is no cipher; the encrypt that follows finds nothing to work with.
NoiseNoModeWitness ==
    /\ noise.last = [call |-> "encrypt", res |-> Err("Handshake not initialized")]
    /\ ~noise.session.is_finished /\ noise.session.handshake = None
    /\ noise.session.enc_cipher = None /\ noise.session.dec_cipher = None
    /\ noise.ncalls = 2

\* is_finished never returns to false, and a second finishInit changes
\* nothing of a session in transport mode.
NoiseStaysFinished ==
    [][/\ noise.session.is_finished => noise'.session.is_finished
       /\ (TransportMode(noise.session) /\ noise'.last.call = "finishInit")
             => /\ noise'.session = noise.session
                /\ noise'.last.res = Err("NoiseHandshake not initialized")]_vars

Counting(n) == [i \in 1..n |-> i - 1]

CountersOf(uses) == [i \in 1..Len(uses) |-> uses[i].counter]

\* C30: after finishInit the encryptions use the write counters 0, 1, 2, ...
\* and the decryptions the read counters 0, 1, 2, ... in call order, one
\* counter a call whether the cipher operation succeeds or fails, each
\* counter on its own, and no counter twice with the same cipher: the uses of
\* the write cipher so far carry the counters 0 .. write_counter - 1 in this
\* order, those of the read cipher 0 .. read_counter - 1, and a step uses at
\* most the next counter of the cipher it calls, never one of the other.
NoiseCountersInOrder ==
    [][/\ CountersOf(noise'.wrote) = Counting(noise'.session.write_counter)
       /\ CountersOf(noise'.read) = Counting(noise'.session.read_counter)
       /\ \A i \in 1..Len(noise'.wrote) : noise'.wrote[i].cipher = "write"
       /\ \A i \in 1..Len(noise'.read) : noise'.read[i].cipher = "read"
       /\ noise'.last.call \in {"encrypt", "encodeFrameRaw", "encodeFrame"}
             => /\ noise'.read = noise.read
                /\ Len(noise'.wrote) <= Len(noise.wrote) + 1
                /\ (noise.session.is_finished /\ noise'.last.res # Err("Marshal error"))
                      => Len(noise'.wrote) = Len(noise.wrote) + 1
       /\ noise'.last.call = "decrypt"
             => /\ noise'.wrote = noise.wrote
                /\ Len(noise'.read) = Len(noise.read) + (IF noise.session.is_finished THEN 1
                                                         ELSE 0)
       /\ noise'.last.call = "decodeFrame" => noise'.wrote = noise.wrote]_vars

\* After finishInit an encryption, a decryption and an encryption that
\* failed, five calls in all: write counters 0 and 1 were used, read counter
\* 0, and the next ones are 2 and 1.
NoiseCountersWitness ==
    /\ noise.session.is_finished /\ noise.ncalls = 5
    /\ CountersOf(noise.wrote) = <<0, 1>>
    /\ CountersOf(noise.read) = <<0>>
    /\ noise.last = [call |-> "encrypt", res |-> Err("Encryption failed")]
    /\ noise.session.write_counter = 2 /\ noise.session.read_counter = 1

====
